---- MODULE Spec2Model ----
(***************************************************************************)
(* A model of the schedule_planner package: the time-of-day values (Time,  *)
(* TimeRange), the Event fields the Schedule reads, and the Schedule       *)
(* container with its day index.                                           *)
(*                                                                         *)
(* A value that a constructor can refuse carries an exc field: "none" for  *)
(* a constructed object, "ValueError" for a raised ValueError.             *)
(***************************************************************************)
EXTENDS Integers, Sequences, FiniteSets, TLC

VARIABLES
    events,         \* Schedule.events: the list of event objects (identities)
    events_by_day,  \* Schedule._events_by_day: the keys present -> bucket list
    day,            \* Event.day of every event object
    time_range,     \* Event.time_range of every event object
    status,         \* Event.status of every event object
    last,           \* the call made last on the schedule, and how it ended
    args,           \* the inputs of the pure time-of-day operations
    out,            \* the operation applied to args last, and its result
    chores,         \* the Chore objects made so far, with their fields
    tag_lists,      \* the list objects that the chores' tags fields refer to
    schedules,      \* the adapter's registry: name -> Schedule
    active_schedule_name,   \* the adapter's active selection
    title_of,       \* Event.title of every event object
    priority_of,    \* Event.priority of every event object
    tags_of         \* Event.tags of every event object

vars ==
    <<events, events_by_day, day, time_range, status, last, args, out,
      chores, tag_lists, schedules, active_schedule_name, title_of,
      priority_of, tags_of>>
schedVars == <<events, events_by_day, day, time_range, status, last>>
timeVars == <<args, out>>
choreVars == <<chores, tag_lists>>
registryVars == <<schedules, active_schedule_name>>
eventVars == <<title_of, priority_of, tags_of>>

(***************************************************************************)
(* Bounds of the model.                                                    *)
(***************************************************************************)
NumEvents == 2      \* event objects the caller holds
MaxLen == 3         \* longest event list explored
MaxDay == 2         \* days are the ordinals 1..MaxDay
MaxWraps == 1       \* add_minutes deltas reach MaxWraps whole days and more

EventIds == 1..NumEvents
Days == 1..MaxDay

(***************************************************************************)
(* time_of_day.py: Time                                                    *)
(***************************************************************************)
ValueError == "ValueError"

NoTime == [exc |-> ValueError, hour |-> 0, minute |-> 0, second |-> 0]

\* Time.__init__: the three range checks, then the fields.
Time(hour, minute, second) ==
    IF ~(0 <= hour /\ hour <= 23) THEN NoTime
    ELSE IF ~(0 <= minute /\ minute <= 59) THEN NoTime
    ELSE IF ~(0 <= second /\ second <= 59) THEN NoTime
    ELSE [exc |-> "none", hour |-> hour, minute |-> minute, second |-> second]

to_minutes(self) == self.hour * 60 + self.minute

\* A plausible slip: the total is not wrapped around midnight.
add_minutes_nowrap(self, minutes) ==
    LET total_minutes == to_minutes(self) + minutes
    IN  Time(total_minutes \div 60, total_minutes % 60, self.second)

add_minutes(self, minutes) ==
    LET total_minutes == (to_minutes(self) + minutes) % (24 * 60)
        new_hour == total_minutes \div 60
        new_minute == total_minutes % 60
    IN  Time(new_hour, new_minute, self.second)

difference_in_minutes(self, other) == to_minutes(self) - to_minutes(other)

\* datetime.time orders by (hour, minute, second).
is_before(self, other) ==
    \/ self.hour < other.hour
    \/ self.hour = other.hour /\ self.minute < other.minute
    \/ self.hour = other.hour /\ self.minute = other.minute
            /\ self.second < other.second

is_after(self, other) ==
    \/ self.hour > other.hour
    \/ self.hour = other.hour /\ self.minute > other.minute
    \/ self.hour = other.hour /\ self.minute = other.minute
            /\ self.second > other.second

\* Time.__eq__: the datetime.time values are equal.
time_eq(self, other) ==
    self.hour = other.hour /\ self.minute = other.minute
        /\ self.second = other.second

(***************************************************************************)
(* time_of_day.py: TimeRange                                               *)
(***************************************************************************)
NoTimeRange ==
    [exc |-> ValueError, start_time |-> NoTime, end_time |-> NoTime,
     duration_minutes |-> 0]

\* A plausible slip: a range of zero duration is refused as well.
TimeRange_strict(start_time, end_time) ==
    IF ~is_after(end_time, start_time) THEN NoTimeRange
    ELSE [exc |-> "none", start_time |-> start_time, end_time |-> end_time,
          duration_minutes |-> difference_in_minutes(end_time, start_time)]

\* TimeRange.__init__
TimeRange(start_time, end_time) ==
    IF is_before(end_time, start_time) THEN NoTimeRange
    ELSE [exc |-> "none", start_time |-> start_time, end_time |-> end_time,
          duration_minutes |-> difference_in_minutes(end_time, start_time)]

\* A plausible slip: a shared boundary counts as overlap.
overlaps_with_closed(self, other) ==
    IF is_before(self.end_time, other.start_time) THEN FALSE
    ELSE IF is_before(other.end_time, self.start_time) THEN FALSE
    ELSE TRUE

overlaps_with(self, other) ==
    IF is_before(self.end_time, other.start_time)
            \/ time_eq(self.end_time, other.start_time) THEN FALSE
    ELSE IF is_before(other.end_time, self.start_time)
            \/ time_eq(other.end_time, self.start_time) THEN FALSE
    ELSE TRUE

get_overlap_duration(self, other) ==
    IF ~overlaps_with(self, other) THEN 0
    ELSE LET overlap_start ==
                 IF is_after(self.start_time, other.start_time)
                 THEN self.start_time ELSE other.start_time
             overlap_end ==
                 IF is_before(self.end_time, other.end_time)
                 THEN self.end_time ELSE other.end_time
         IN  difference_in_minutes(overlap_end, overlap_start)

\* TimeRange.from_duration
from_duration(start_time, duration_minutes) ==
    LET end_time == add_minutes(start_time, duration_minutes)
    IN  TimeRange(start_time, end_time)

\* scheduler_server.py: parse_time
parse_time(hour, minute) == Time(hour, minute, 0)

\* The time range that create_chore makes of its start and its duration;
\* create_gym_session and create_personal_event make theirs the same way.
create_chore_time_range(start_hour, start_minute, duration_minutes) ==
    LET end_time ==
            add_minutes(parse_time(start_hour, start_minute), duration_minutes)
    IN  TimeRange(parse_time(start_hour, start_minute), end_time)

(***************************************************************************)
(* events.py: Event.conflicts_with, on the two fields it reads             *)
(***************************************************************************)
EventFields(d, r) == [day |-> d, time_range |-> r]

\* A plausible slip: the day is not compared.
conflicts_with_any_day(self, other) ==
    overlaps_with(self.time_range, other.time_range)

conflicts_with(self, other) ==
    IF self.day # other.day THEN FALSE
    ELSE overlaps_with(self.time_range, other.time_range)

(***************************************************************************)
(* Python list and defaultdict(list) operations, on event identities.      *)
(* Event defines no __eq__: "in", "!=" and list.remove compare identities. *)
(***************************************************************************)
Contains(list, x) == \E i \in 1..Len(list) : list[i] = x

FirstIndex(list, x) == CHOOSE i \in 1..Len(list) :
    list[i] = x /\ \A j \in 1..(i - 1) : list[j] # x

\* list.remove(x) where x is in the list: the first occurrence goes.
RemoveFirst(list, x) ==
    LET i == FirstIndex(list, x)
    IN  SubSeq(list, 1, i - 1) \o SubSeq(list, i + 1, Len(list))

\* Reading index[d]: the bucket, empty when the key is missing.
BucketOf(index, d) == IF d \in DOMAIN index THEN index[d] ELSE <<>>

\* index[d] = bucket, which makes the key when it is missing.
SetBucket(index, d, bucket) ==
    [k \in (DOMAIN index) \cup {d} |-> IF k = d THEN bucket ELSE index[k]]

\* The number of entries of all buckets together.
RECURSIVE SumLen(_, _)
SumLen(index, keys) ==
    IF keys = {} THEN 0
    ELSE LET k == CHOOSE x \in keys : TRUE
         IN  Len(index[k]) + SumLen(index, keys \ {k})

IndexSize(index) == SumLen(index, DOMAIN index)

\* The defaultdict after index[d] was read: a missing key now holds [].
Touched(index, d) == SetBucket(index, d, BucketOf(index, d))

(***************************************************************************)
(* schedule.py: Schedule                                                   *)
(***************************************************************************)
\* list.sort(key=lambda e: e.time_range.start_time) is stable: an element
\* goes before the first one that starts later.
InsertByStart(sorted, e) ==
    LET later == {i \in 1..Len(sorted) :
                    is_before(time_range[e].start_time,
                              time_range[sorted[i]].start_time)}
        pos == IF later = {} THEN Len(sorted) + 1
               ELSE CHOOSE i \in later : \A j \in later : i <= j
    IN  SubSeq(sorted, 1, pos - 1) \o <<e>> \o SubSeq(sorted, pos, Len(sorted))

RECURSIVE SortByStart(_)
SortByStart(list) ==
    IF list = <<>> THEN <<>>
    ELSE InsertByStart(SortByStart(SubSeq(list, 1, Len(list) - 1)),
                       list[Len(list)])

\* A plausible slip: the copy of the bucket is returned unsorted.
get_events_on_day_unsorted(index, d) == BucketOf(index, d)

\* Schedule.get_events_on_day: the sorted copy (the read makes the key).
get_events_on_day(index, d) == SortByStart(BucketOf(index, d))

ThisEvent(e) == EventFields(day[e], time_range[e])

\* A plausible slip: the event itself is not left out.
get_conflicting_events_with_self(index, event) ==
    SelectSeq(get_events_on_day(index, day[event]),
              LAMBDA existing_event :
                  conflicts_with(ThisEvent(event), ThisEvent(existing_event)))

\* Schedule.get_conflicting_events
get_conflicting_events(index, event) ==
    SelectSeq(get_events_on_day(index, day[event]),
              LAMBDA existing_event :
                  existing_event # event
                  /\ conflicts_with(ThisEvent(event), ThisEvent(existing_event)))

\* A plausible slip: the conflicts are computed and ignored.
add_event_unchecked(list, index, event, check_conflicts) ==
    [ret |-> "True",
     events |-> Append(list, event),
     events_by_day |->
         SetBucket(index, day[event], Append(BucketOf(index, day[event]), event))]

\* A plausible slip: the event is appended before the conflicts are looked
\* for, and stays in the schedule when the call returns False.
add_event_checks_after(list, index, event, check_conflicts) ==
    [ret |-> IF check_conflicts /\ get_conflicting_events(index, event) # <<>>
             THEN "False" ELSE "True",
     events |-> Append(list, event),
     events_by_day |->
         SetBucket(index, day[event], Append(BucketOf(index, day[event]), event))]

\* Schedule.add_event: the outcome and the list and index it leaves.
add_event(list, index, event, check_conflicts) ==
    IF check_conflicts /\ get_conflicting_events(index, event) # <<>>
    THEN [ret |-> "False", events |-> list,
          events_by_day |-> Touched(index, day[event])]
    ELSE [ret |-> "True",
          events |-> Append(list, event),
          events_by_day |->
              SetBucket(index, day[event],
                        Append(BucketOf(index, day[event]), event))]

\* A plausible slip: the event is taken off the list and left in its bucket.
remove_event_list_only(list, index, event) ==
    IF Contains(list, event)
    THEN [ret |-> "True", events |-> RemoveFirst(list, event),
          events_by_day |-> index]
    ELSE [ret |-> "False", events |-> list, events_by_day |-> index]

\* A plausible slip: events compare by their fields, so the first event
\* with the same day and range is the one removed.
remove_event_by_value(list, index, event) ==
    LET same == {i \in 1..Len(list) : ThisEvent(list[i]) = ThisEvent(event)}
        found == list[CHOOSE i \in same : \A j \in same : i <= j]
    IN  IF same # {}
        THEN [ret |-> "True",
              events |-> RemoveFirst(list, found),
              events_by_day |->
                  SetBucket(index, day[event],
                            RemoveFirst(BucketOf(index, day[event]), found))]
        ELSE [ret |-> "False", events |-> list, events_by_day |-> index]

\* Schedule.remove_event: list.remove on the bucket raises ValueError when
\* the event is not in the bucket of its day, after the list has changed.
remove_event(list, index, event) ==
    IF Contains(list, event)
    THEN IF Contains(BucketOf(index, day[event]), event)
         THEN [ret |-> "True",
               events |-> RemoveFirst(list, event),
               events_by_day |->
                   SetBucket(index, day[event],
                             RemoveFirst(BucketOf(index, day[event]), event))]
         ELSE [ret |-> ValueError,
               events |-> RemoveFirst(list, event),
               events_by_day |-> Touched(index, day[event])]
    ELSE [ret |-> "False", events |-> list, events_by_day |-> index]

\* list.sort(key=lambda e: (e.day, e.time_range.start_time)) is stable: an
\* element goes before the first one whose key tuple is greater.
InsertByDayAndStart(sorted, e) ==
    LET later == {i \in 1..Len(sorted) :
                    \/ day[e] < day[sorted[i]]
                    \/ /\ day[e] = day[sorted[i]]
                       /\ is_before(time_range[e].start_time,
                                    time_range[sorted[i]].start_time)}
        pos == IF later = {} THEN Len(sorted) + 1
               ELSE CHOOSE i \in later : \A j \in later : i <= j
    IN  SubSeq(sorted, 1, pos - 1) \o <<e>> \o SubSeq(sorted, pos, Len(sorted))

RECURSIVE SortByDayAndStart(_)
SortByDayAndStart(list) ==
    IF list = <<>> THEN <<>>
    ELSE InsertByDayAndStart(SortByDayAndStart(SubSeq(list, 1, Len(list) - 1)),
                             list[Len(list)])

\* The limit argument: None, or an integer.
NoLimit == [none |-> TRUE, n |-> 0]
Limit(n) == [none |-> FALSE, n |-> n]

\* list[:n] of Python: the first n entries, or all but the last -n.
SliceTo(list, n) ==
    LET stop == IF n >= 0 THEN n ELSE Len(list) + n
        last_kept == IF stop > Len(list) THEN Len(list)
                     ELSE IF stop < 0 THEN 0 ELSE stop
    IN  SubSeq(list, 1, last_kept)

\* Schedule.get_upcoming_events, with from_day given or today's day
get_upcoming_events(list, from_day, limit) ==
    LET upcoming ==
            SortByDayAndStart(SelectSeq(list, LAMBDA e : day[e] >= from_day))
    IN  IF ~limit.none THEN SliceTo(upcoming, limit.n) ELSE upcoming

\* Schedule.get_events_in_date_range: the events of the list whose day is
\* in the range, in the order of the list.
get_events_in_date_range(list, start_day, end_day) ==
    SelectSeq(list, LAMBDA e : start_day <= day[e] /\ day[e] <= end_day)

\* No statistics: the four counts of an empty schedule, and no further key.
NoStats ==
    [total_events |-> 0, upcoming_events |-> 0, completed_events |-> 0,
     cancelled_events |-> 0, detailed |-> FALSE, events_by_type |-> {},
     total_scheduled_minutes |-> 0,
     average_event_duration |-> [dividend |-> 0, divisor |-> 1]]

\* get_event_type of the event objects: the first is an Appointment, the
\* others are Chores.
get_event_type(e) == IF e = 1 THEN "Appointment" ELSE "Chore"

\* Schedule.get_events_by_status and get_events_by_type
get_events_by_status(list, s) == SelectSeq(list, LAMBDA e : status[e] = s)
get_events_by_type(list, event_type) ==
    SelectSeq(list, LAMBDA e : get_event_type(e) = event_type)

\* sum(event.get_duration_minutes() for event in list)
RECURSIVE SumDurations(_)
SumDurations(list) ==
    IF list = <<>> THEN 0
    ELSE time_range[Head(list)].duration_minutes + SumDurations(Tail(list))

\* A plausible slip: the empty schedule is not treated apart, and the
\* average divides by zero.
get_statistics_unguarded(list, today) ==
    IF list = <<>>
    THEN [ret |-> "ZeroDivisionError", stats |-> NoStats]
    ELSE [ret |-> "Dict",
          stats |->
              [total_events |-> Len(list),
               upcoming_events |->
                   Len(get_upcoming_events(list, today, NoLimit)),
               completed_events |->
                   Len(get_events_by_status(list, "completed")),
               cancelled_events |->
                   Len(get_events_by_status(list, "cancelled")),
               detailed |-> TRUE,
               events_by_type |->
                   {<<get_event_type(list[i]),
                      Len(get_events_by_type(list, get_event_type(list[i])))>> :
                        i \in 1..Len(list)},
               total_scheduled_minutes |-> SumDurations(list),
               average_event_duration |->
                   [dividend |-> SumDurations(list), divisor |-> Len(list)]]]

\* Schedule.get_statistics on the day today: the dictionary returned.  The
\* keys after the four counts are there only when the schedule holds an
\* event (detailed); the average is the quotient of the true division.
get_statistics(list, today) ==
    IF list = <<>>
    THEN [ret |-> "Dict", stats |-> NoStats]
    ELSE [ret |-> "Dict",
          stats |->
              [total_events |-> Len(list),
               upcoming_events |->
                   Len(get_upcoming_events(list, today, NoLimit)),
               completed_events |->
                   Len(get_events_by_status(list, "completed")),
               cancelled_events |->
                   Len(get_events_by_status(list, "cancelled")),
               detailed |-> TRUE,
               events_by_type |->
                   {<<get_event_type(list[i]),
                      Len(get_events_by_type(list, get_event_type(list[i])))>> :
                        i \in 1..Len(list)},
               total_scheduled_minutes |-> SumDurations(list),
               average_event_duration |->
                   [dividend |-> SumDurations(list), divisor |-> Len(list)]]]

\* The walk of get_free_time_slots over the sorted events of the day, from
\* event i on; TimeRange raises when the cursor is after the slot's end.
RECURSIVE WalkEvents(_, _, _, _, _)
WalkEvents(sorted, i, current_time, free_slots, slot_duration) ==
    IF i > Len(sorted)
    THEN LET end_of_day == Time(21, 0, 0)
             slot == TimeRange(current_time, end_of_day)
         IN  IF difference_in_minutes(end_of_day, current_time) >= slot_duration
             THEN IF slot.exc = ValueError
                  THEN [ret |-> ValueError, slots |-> <<>>]
                  ELSE [ret |-> "List", slots |-> Append(free_slots, slot)]
             ELSE [ret |-> "List", slots |-> free_slots]
    ELSE LET range == time_range[sorted[i]]
             gap == difference_in_minutes(range.start_time, current_time)
                        >= slot_duration
             slot == TimeRange(current_time, range.start_time)
             moved == IF is_after(range.end_time, current_time)
                      THEN range.end_time ELSE current_time
         IN  IF gap /\ slot.exc = ValueError
             THEN [ret |-> ValueError, slots |-> <<>>]
             ELSE WalkEvents(sorted, i + 1, moved,
                             IF gap THEN Append(free_slots, slot)
                             ELSE free_slots,
                             slot_duration)

\* A plausible slip: the minimum duration is applied to the empty day too.
get_free_time_slots_filtered(index, d, slot_duration) ==
    WalkEvents(get_events_on_day(index, d), 1, Time(9, 0, 0), <<>>,
               slot_duration)

\* A plausible slip: the gap after the last event is left out.
get_free_time_slots_no_tail(index, d, slot_duration) ==
    LET sorted == get_events_on_day(index, d)
        r == WalkEvents(sorted, 1, Time(9, 0, 0), <<>>, slot_duration)
    IN  IF sorted = <<>>
        THEN [ret |-> "List",
              slots |-> <<TimeRange(Time(9, 0, 0), Time(21, 0, 0))>>]
        ELSE [r EXCEPT !.slots =
                  SelectSeq(r.slots,
                            LAMBDA slot : slot.end_time # Time(21, 0, 0))]

\* A plausible slip: the cursor is moved to every event's end, also to one
\* that is earlier than the cursor.
RECURSIVE WalkEventsRetracting(_, _, _, _, _)
WalkEventsRetracting(sorted, i, current_time, free_slots, slot_duration) ==
    IF i > Len(sorted)
    THEN LET end_of_day == Time(21, 0, 0)
             slot == TimeRange(current_time, end_of_day)
         IN  IF difference_in_minutes(end_of_day, current_time) >= slot_duration
             THEN IF slot.exc = ValueError
                  THEN [ret |-> ValueError, slots |-> <<>>]
                  ELSE [ret |-> "List", slots |-> Append(free_slots, slot)]
             ELSE [ret |-> "List", slots |-> free_slots]
    ELSE LET range == time_range[sorted[i]]
             gap == difference_in_minutes(range.start_time, current_time)
                        >= slot_duration
             slot == TimeRange(current_time, range.start_time)
         IN  IF gap /\ slot.exc = ValueError
             THEN [ret |-> ValueError, slots |-> <<>>]
             ELSE WalkEventsRetracting(sorted, i + 1, range.end_time,
                                       IF gap THEN Append(free_slots, slot)
                                       ELSE free_slots,
                                       slot_duration)

get_free_time_slots_retracting(index, d, slot_duration) ==
    LET sorted == get_events_on_day(index, d)
    IN  IF sorted = <<>>
        THEN [ret |-> "List",
              slots |-> <<TimeRange(Time(9, 0, 0), Time(21, 0, 0))>>]
        ELSE WalkEventsRetracting(sorted, 1, Time(9, 0, 0), <<>>,
                                  slot_duration)

\* A plausible slip: the events are walked in the order they were added.
get_free_time_slots_unsorted(index, d, slot_duration) ==
    LET bucket == BucketOf(index, d)
    IN  IF bucket = <<>>
        THEN [ret |-> "List",
              slots |-> <<TimeRange(Time(9, 0, 0), Time(21, 0, 0))>>]
        ELSE WalkEvents(bucket, 1, Time(9, 0, 0), <<>>, slot_duration)

\* Schedule.get_free_time_slots
get_free_time_slots(index, d, slot_duration) ==
    LET sorted == get_events_on_day(index, d)
    IN  IF sorted = <<>>
        THEN [ret |-> "List",
              slots |-> <<TimeRange(Time(9, 0, 0), Time(21, 0, 0))>>]
        ELSE WalkEvents(sorted, 1, Time(9, 0, 0), <<>>, slot_duration)

(***************************************************************************)
(* The schedule as a state machine: one action per call.                   *)
(***************************************************************************)
\* The ranges events are given: touching, overlapping, nested, and one of
\* zero duration.
EventRanges ==
    {TimeRange(Time(9, 0, 0), Time(10, 0, 0)),
     TimeRange(Time(10, 0, 0), Time(11, 0, 0)),
     TimeRange(Time(9, 0, 0), Time(11, 0, 0)),
     TimeRange(Time(10, 0, 0), Time(10, 0, 0))}

SlotDurations == {0, 60, 721, 1000}

\* The ranges Event.reschedule is given.
RescheduleRanges ==
    {TimeRange(Time(9, 0, 0), Time(10, 0, 0)),
     TimeRange(Time(10, 0, 0), Time(11, 0, 0))}

\* No input drawn, and no pure operation applied.
NoArgs ==
    [kind |-> "none", t1 |-> Time(0, 0, 0), t2 |-> Time(0, 0, 0),
     t3 |-> Time(0, 0, 0), t4 |-> Time(0, 0, 0), d1 |-> 1, d2 |-> 1,
     delta |-> 0, token |-> <<>>]

NoOut ==
    [op |-> "none", b |-> FALSE, n |-> 0, t |-> NoTime, r |-> NoTimeRange,
     s |-> ""]

NoCall ==
    [op |-> "none", event |-> 0, day |-> 0, flag |-> FALSE, ret |-> "None",
     list |-> <<>>, slots |-> <<>>, n |-> 0, time_range |-> NoTimeRange,
     step |-> "none", name |-> "", tag |-> "", stats |-> NoStats,
     token |-> <<>>]

\* Schedule.__init__
ScheduleNew ==
    /\ events = <<>>
    /\ events_by_day = <<>>
    /\ last = NoCall

\* A Schedule of the registry as Schedule.__init__ leaves it.
EmptySchedule == [events |-> <<>>, events_by_day |-> <<>>]

\* The adapter module as loaded: the registry holds the default schedule,
\* which is the active one.
RegistryNew ==
    /\ schedules = [name \in {"default"} |-> EmptySchedule]
    /\ active_schedule_name = "default"

\* The title, priority and tags of the event objects as Event.__init__
\* leaves them: a meeting and a chore made with the defaults.
FieldsNew ==
    /\ title_of = [e \in EventIds |-> IF e = 1 THEN "Standup" ELSE "Laundry"]
    /\ priority_of = [e \in EventIds |-> "MEDIUM"]
    /\ tags_of = [e \in EventIds |-> <<>>]

\* No Chore object was made.
NoChores ==
    /\ chores = <<>>
    /\ tag_lists = <<>>

\* An empty schedule, and event objects as Event.__init__ leaves them, on
\* any days and with any of the ranges.
InitSchedule ==
    /\ ScheduleNew
    /\ day \in [EventIds -> Days]
    /\ time_range \in [EventIds -> EventRanges]
    /\ status = [e \in EventIds |-> "scheduled"]
    /\ args = NoArgs
    /\ out = NoOut
    /\ NoChores
    /\ RegistryNew
    /\ FieldsNew

\* An empty schedule, and event objects all made for day 1, 09:00-10:00;
\* Event.reschedule moves them from there.
Init ==
    /\ ScheduleNew
    /\ day = [e \in EventIds |-> 1]
    /\ time_range =
           [e \in EventIds |-> TimeRange(Time(9, 0, 0), Time(10, 0, 0))]
    /\ status = [e \in EventIds |-> "scheduled"]
    /\ args = NoArgs
    /\ out = NoOut
    /\ NoChores
    /\ RegistryNew
    /\ FieldsNew

AddEvent(e, check_conflicts) ==
    LET r == add_event(events, events_by_day, e, check_conflicts)
    IN  /\ Len(r.events) <= MaxLen
        /\ IndexSize(r.events_by_day) <= MaxLen
        /\ events' = r.events
        /\ events_by_day' = r.events_by_day
        /\ last' = [NoCall EXCEPT !.op = "add_event", !.event = e,
                                  !.flag = check_conflicts, !.ret = r.ret]
        /\ UNCHANGED <<day, time_range, status, timeVars, choreVars,
                     registryVars, eventVars>>

RemoveEvent(e) ==
    LET r == remove_event(events, events_by_day, e)
    IN  /\ events' = r.events
        /\ events_by_day' = r.events_by_day
        /\ last' = [NoCall EXCEPT !.op = "remove_event", !.event = e,
                                  !.ret = r.ret]
        /\ UNCHANGED <<day, time_range, status, timeVars, choreVars,
                     registryVars, eventVars>>

\* Schedule.clear_all_events
ClearAllEvents ==
    /\ events' = <<>>
    /\ events_by_day' = <<>>
    /\ last' = [NoCall EXCEPT !.op = "clear_all_events"]
    /\ UNCHANGED <<day, time_range, status, timeVars, choreVars,
                     registryVars, eventVars>>

\* A plausible slip: the status is left as it was.
reschedule_keeps_status(e, new_day, new_time_range) ==
    /\ day' = [day EXCEPT ![e] = new_day]
    /\ time_range' = [time_range EXCEPT ![e] = new_time_range]
    /\ status' = status

\* Event.reschedule: the event's own fields, and no schedule.
reschedule(e, new_day, new_time_range) ==
    /\ day' = [day EXCEPT ![e] = new_day]
    /\ time_range' = [time_range EXCEPT ![e] = new_time_range]
    /\ status' = [status EXCEPT ![e] = "rescheduled"]

Reschedule(e, new_day, new_time_range) ==
    /\ reschedule(e, new_day, new_time_range)
    /\ last' = [NoCall EXCEPT !.op = "reschedule", !.event = e,
                              !.day = new_day,
                              !.time_range = new_time_range]
    /\ UNCHANGED <<events, events_by_day, timeVars, choreVars,
                 registryVars, eventVars>>

\* A plausible slip: a cancelled event cannot be completed.
MarkCompleted_guarded(e) ==
    /\ status[e] # "cancelled"
    /\ status' = [status EXCEPT ![e] = "completed"]
    /\ last' = [NoCall EXCEPT !.op = "mark_completed", !.event = e]
    /\ UNCHANGED <<events, events_by_day, day, time_range, timeVars,
                 choreVars, registryVars, eventVars>>

\* Event.mark_completed
MarkCompleted(e) ==
    /\ status' = [status EXCEPT ![e] = "completed"]
    /\ last' = [NoCall EXCEPT !.op = "mark_completed", !.event = e]
    /\ UNCHANGED <<events, events_by_day, day, time_range, timeVars,
                 choreVars, registryVars, eventVars>>

\* Event.mark_cancelled
MarkCancelled(e) ==
    /\ status' = [status EXCEPT ![e] = "cancelled"]
    /\ last' = [NoCall EXCEPT !.op = "mark_cancelled", !.event = e]
    /\ UNCHANGED <<events, events_by_day, day, time_range, timeVars,
                 choreVars, registryVars, eventVars>>

\* Event.mark_in_progress
MarkInProgress(e) ==
    /\ status' = [status EXCEPT ![e] = "in_progress"]
    /\ last' = [NoCall EXCEPT !.op = "mark_in_progress", !.event = e]
    /\ UNCHANGED <<events, events_by_day, day, time_range, timeVars,
                 choreVars, registryVars, eventVars>>

\* One call of a status operation of event e.
StatusOperation(e) ==
    \/ MarkCompleted(e)
    \/ MarkCancelled(e)
    \/ MarkInProgress(e)
    \/ \E d \in Days, r \in RescheduleRanges : Reschedule(e, d, r)

GetEventsOnDay(d) ==
    /\ events_by_day' = Touched(events_by_day, d)
    /\ last' = [NoCall EXCEPT !.op = "get_events_on_day", !.day = d,
                              !.ret = "List",
                              !.list = get_events_on_day(events_by_day, d)]
    /\ UNCHANGED <<events, day, time_range, status, timeVars, choreVars,
                     registryVars, eventVars>>

GetFreeTimeSlots(d, slot_duration) ==
    LET r == get_free_time_slots(events_by_day, d, slot_duration)
    IN  /\ events_by_day' = Touched(events_by_day, d)
        /\ last' = [NoCall EXCEPT !.op = "get_free_time_slots", !.day = d,
                                  !.n = slot_duration, !.ret = r.ret,
                                  !.slots = r.slots]
        /\ UNCHANGED <<events, day, time_range, status, timeVars, choreVars,
                     registryVars, eventVars>>

\* The days asked for upcoming events: every day of an event and the next.
FromDays == 1..(MaxDay + 1)

Limits == {NoLimit, Limit(-1), Limit(0), Limit(1), Limit(2)}

GetUpcomingEvents(from_day, limit) ==
    /\ last' = [NoCall EXCEPT
                   !.op = "get_upcoming_events", !.day = from_day,
                   !.flag = ~limit.none, !.n = limit.n, !.ret = "List",
                   !.list = get_upcoming_events(events, from_day, limit)]
    /\ UNCHANGED <<events, events_by_day, day, time_range, status, timeVars,
                 choreVars, registryVars, eventVars>>

GetConflictingEvents(e) ==
    /\ events_by_day' = Touched(events_by_day, day[e])
    /\ last' = [NoCall EXCEPT
                   !.op = "get_conflicting_events", !.event = e,
                   !.ret = "List",
                   !.list = get_conflicting_events(events_by_day, e)]
    /\ UNCHANGED <<events, day, time_range, status, timeVars, choreVars,
                 registryVars, eventVars>>

\* The adapter's get_events_in_date_range on the schedule: the events that
\* Schedule.get_events_in_date_range returns, one dictionary for each.
GetEventsInDateRange(start_day, end_day) ==
    /\ last' = [NoCall EXCEPT
                   !.op = "get_events_in_date_range", !.day = start_day,
                   !.n = end_day, !.ret = "List",
                   !.list = get_events_in_date_range(events, start_day,
                                                     end_day)]
    /\ UNCHANGED <<events, events_by_day, day, time_range, status, timeVars,
                 choreVars, registryVars, eventVars>>

\* The schedule is filled and emptied, and asked for upcoming events, for
\* conflicting events and for the events of a range of days.
NextQuery ==
    \/ \E e \in EventIds, c \in BOOLEAN : AddEvent(e, c)
    \/ \E e \in EventIds : RemoveEvent(e)
    \/ \E d \in FromDays, limit \in Limits : GetUpcomingEvents(d, limit)
    \/ \E e \in EventIds : GetConflictingEvents(e)
    \/ \E d1 \in Days, d2 \in Days : GetEventsInDateRange(d1, d2)

\* The ranges of the events the statistics are taken of: an hour, two
\* hours and a half, and no time at all.
DurationRanges ==
    {TimeRange(Time(9, 0, 0), Time(10, 0, 0)),
     TimeRange(Time(9, 0, 0), Time(11, 30, 0)),
     TimeRange(Time(10, 0, 0), Time(10, 0, 0))}

\* An empty schedule, and event objects on any days with any of
\* DurationRanges.
InitStatistics ==
    /\ ScheduleNew
    /\ day \in [EventIds -> Days]
    /\ time_range \in [EventIds -> DurationRanges]
    /\ status = [e \in EventIds |-> "scheduled"]
    /\ args = NoArgs
    /\ out = NoOut
    /\ NoChores
    /\ RegistryNew
    /\ FieldsNew

\* Schedule.get_statistics; Day.today() is any day.
GetStatistics(today) ==
    LET r == get_statistics(events, today)
    IN  /\ last' = [NoCall EXCEPT !.op = "get_statistics", !.day = today,
                                  !.ret = r.ret, !.stats = r.stats]
        /\ UNCHANGED <<events, events_by_day, day, time_range, status,
                     timeVars, choreVars, registryVars, eventVars>>

\* The schedule is filled and emptied, its events are completed and
\* cancelled, and its statistics are taken.
NextStatistics ==
    \/ \E e \in EventIds : AddEvent(e, FALSE)
    \/ \E e \in EventIds : RemoveEvent(e)
    \/ ClearAllEvents
    \/ \E e \in EventIds : MarkCompleted(e)
    \/ \E e \in EventIds : MarkCancelled(e)
    \/ \E today \in FromDays : GetStatistics(today)

\* The Schedule's own operations: the events' days and ranges stay as made.
NextSchedule ==
    \/ \E e \in EventIds, c \in BOOLEAN : AddEvent(e, c)
    \/ \E e \in EventIds : RemoveEvent(e)
    \/ ClearAllEvents
    \/ \E d \in Days : GetEventsOnDay(d)
    \/ \E d \in Days, n \in SlotDurations : GetFreeTimeSlots(d, n)

\* The operations that change the schedule, and Event.reschedule on any
\* event object, in the schedule or not.
Next ==
    \/ \E e \in EventIds, c \in BOOLEAN : AddEvent(e, c)
    \/ \E e \in EventIds : RemoveEvent(e)
    \/ ClearAllEvents
    \/ \E e \in EventIds, d \in Days, r \in RescheduleRanges :
           Reschedule(e, d, r)

\* The ranges of the events the free-slot walk is tried on: two apart, one
\* nested in the first, one across the start and one across the end of the
\* working window, one of half a minute at its end, and one after it.
SlotRanges ==
    {TimeRange(Time(10, 0, 0), Time(11, 0, 0)),
     TimeRange(Time(14, 0, 0), Time(15, 0, 0)),
     TimeRange(Time(10, 15, 0), Time(10, 45, 0)),
     TimeRange(Time(8, 0, 0), Time(9, 30, 0)),
     TimeRange(Time(20, 0, 0), Time(22, 0, 0)),
     TimeRange(Time(21, 0, 0), Time(21, 0, 30)),
     TimeRange(Time(21, 30, 0), Time(22, 0, 0))}

MinDurations == {0, 1, 60, 200}

\* An empty schedule, and event objects on any days with any of SlotRanges.
InitSlots ==
    /\ ScheduleNew
    /\ day \in [EventIds -> Days]
    /\ time_range \in [EventIds -> SlotRanges]
    /\ status = [e \in EventIds |-> "scheduled"]
    /\ args = NoArgs
    /\ out = NoOut
    /\ NoChores
    /\ RegistryNew
    /\ FieldsNew

\* The schedule is filled and emptied, and asked for its free slots.
NextSlots ==
    \/ \E e \in EventIds, c \in BOOLEAN : AddEvent(e, c)
    \/ \E e \in EventIds : RemoveEvent(e)
    \/ \E d \in Days, n \in MinDurations : GetFreeTimeSlots(d, n)

\* Every event is added with check_conflicts=True, events are removed, and
\* no event's day or range is changed.
NextChecked ==
    \/ \E e \in EventIds : AddEvent(e, TRUE)
    \/ \E e \in EventIds : RemoveEvent(e)
    \/ ClearAllEvents

SpecChecked == InitSchedule /\ [][NextChecked]_vars

SpecSchedule == InitSchedule /\ [][NextSchedule]_vars

\* The events' own operations, on event objects no schedule holds.
NextStatus == \E e \in EventIds : StatusOperation(e)

SpecSlots == InitSlots /\ [][NextSlots]_vars

SpecQuery == InitSchedule /\ [][NextQuery]_vars

SpecStatistics == InitStatistics /\ [][NextStatistics]_vars

SpecStatus == Init /\ [][NextStatus]_vars

Spec == Init /\ [][Next]_vars

(***************************************************************************)
(* The pure time-of-day operations, applied to inputs drawn at the start.  *)
(***************************************************************************)
MinuteSamples == {0, 10, 30, 50, 59}
SecondSamples == {0, 30}

\* Every hour of the clock, at the sampled minutes and seconds.
ClockTimes ==
    {Time(h, m, s) : h \in 0..23, m \in MinuteSamples, s \in SecondSamples}

DeltaSamples == {0, 1, 20, 59, 60, 600, 1439}

\* Signed deltas of up to MaxWraps whole days plus a sampled remainder.
Deltas ==
    {sgn * (w * 24 * 60 + m) : sgn \in {-1, 1}, w \in 0..MaxWraps,
                               m \in DeltaSamples}

\* Start and end times of the ranges tried, some a few seconds apart.
RangeTimes ==
    {Time(9, 0, 0), Time(9, 0, 30), Time(10, 0, 0), Time(10, 30, 0),
     Time(11, 0, 0)}

TimeArgs ==
    {[NoArgs EXCEPT !.kind = "time", !.t1 = t, !.delta = n] :
        t \in ClockTimes, n \in Deltas}

RangeArgs ==
    {[NoArgs EXCEPT !.kind = "range", !.t1 = a, !.t2 = b, !.t3 = c, !.t4 = d,
                    !.d1 = x, !.d2 = y] :
        a \in RangeTimes, b \in RangeTimes, c \in RangeTimes,
        d \in RangeTimes, x \in Days, y \in Days}

\* The two ranges the range inputs describe, as their constructor leaves them.
RangeA == TimeRange(args.t1, args.t2)
RangeB == TimeRange(args.t3, args.t4)

\* The inputs, beside an empty schedule the pure operations never touch.
InitTime ==
    /\ ScheduleNew
    /\ day = [e \in EventIds |-> 1]
    /\ time_range = [e \in EventIds |-> TimeRange(Time(9, 0, 0), Time(10, 0, 0))]
    /\ status = [e \in EventIds |-> "scheduled"]
    /\ args \in TimeArgs \cup RangeArgs
    /\ out = NoOut
    /\ NoChores
    /\ RegistryNew
    /\ FieldsNew

AddMinutes ==
    /\ args.kind = "time" /\ out.op = "none"
    /\ out' = [NoOut EXCEPT !.op = "add_minutes",
                            !.t = add_minutes(args.t1, args.delta)]
    /\ UNCHANGED <<schedVars, args, choreVars, registryVars, eventVars>>

\* add_minutes(-delta) applied to the result of add_minutes(delta).
AddMinutesBack ==
    /\ out.op = "add_minutes" /\ out.t.exc = "none"
    /\ out' = [NoOut EXCEPT !.op = "add_minutes_back",
                            !.t = add_minutes(out.t, -args.delta)]
    /\ UNCHANGED <<schedVars, args, choreVars, registryVars, eventVars>>

NewTimeRange ==
    /\ args.kind = "range" /\ out.op = "none"
    /\ out' = [NoOut EXCEPT !.op = "TimeRange", !.r = RangeA]
    /\ UNCHANGED <<schedVars, args, choreVars, registryVars, eventVars>>

OverlapsWith ==
    /\ args.kind = "range" /\ out.op = "none"
    /\ RangeA.exc = "none" /\ RangeB.exc = "none"
    /\ out' = [NoOut EXCEPT !.op = "overlaps_with",
                            !.b = overlaps_with(RangeA, RangeB)]
    /\ UNCHANGED <<schedVars, args, choreVars, registryVars, eventVars>>

GetOverlapDuration ==
    /\ args.kind = "range" /\ out.op = "none"
    /\ RangeA.exc = "none" /\ RangeB.exc = "none"
    /\ out' = [NoOut EXCEPT !.op = "get_overlap_duration",
                            !.n = get_overlap_duration(RangeA, RangeB)]
    /\ UNCHANGED <<schedVars, args, choreVars, registryVars, eventVars>>

ConflictsWith ==
    /\ args.kind = "range" /\ out.op = "none"
    /\ RangeA.exc = "none" /\ RangeB.exc = "none"
    /\ out' = [NoOut EXCEPT !.op = "conflicts_with",
                            !.b = conflicts_with(EventFields(args.d1, RangeA),
                                                 EventFields(args.d2, RangeB))]
    /\ UNCHANGED <<schedVars, args, choreVars, registryVars, eventVars>>

FromDuration ==
    /\ args.kind = "time" /\ out.op = "none"
    /\ out' = [NoOut EXCEPT !.op = "from_duration",
                            !.r = from_duration(args.t1, args.delta)]
    /\ UNCHANGED <<schedVars, args, choreVars, registryVars, eventVars>>

\* create_chore, create_gym_session or create_personal_event with the start
\* hour and minute of the time drawn: the range the new event is given.
CreateChore ==
    /\ args.kind = "time" /\ out.op = "none"
    /\ out' = [NoOut EXCEPT
                  !.op = "create_chore",
                  !.r = create_chore_time_range(args.t1.hour, args.t1.minute,
                                                args.delta)]
    /\ UNCHANGED <<schedVars, args, choreVars, registryVars, eventVars>>

NextTime ==
    \/ AddMinutes
    \/ AddMinutesBack
    \/ NewTimeRange
    \/ OverlapsWith
    \/ GetOverlapDuration
    \/ ConflictsWith
    \/ FromDuration
    \/ CreateChore

SpecTime == InitTime /\ [][NextTime]_vars

(***************************************************************************)
(* Wall-clock order, stated without the code's comparisons.                *)
(***************************************************************************)
SecondOfDay(t) == t.hour * 3600 + t.minute * 60 + t.second

\* Strict overlap: each range ends after the other starts.
StrictOverlap(a, b) ==
    /\ SecondOfDay(a.end_time) > SecondOfDay(b.start_time)
    /\ SecondOfDay(b.end_time) > SecondOfDay(a.start_time)

\* C6: a.conflicts_with(b) is true iff the days are equal and the ranges
\* overlap; events on different days never conflict, even with identical
\* ranges, and conflicts_with is symmetric.
C6_ConflictsIffSameDayOverlap ==
    out.op = "conflicts_with" =>
        /\ out.b = (args.d1 = args.d2 /\ StrictOverlap(RangeA, RangeB))
        /\ (args.d1 # args.d2 => ~out.b)
        /\ out.b = conflicts_with(EventFields(args.d2, RangeB),
                                  EventFields(args.d1, RangeA))

\* Identical ranges on different days were compared, and did not conflict.
C6_Witness ==
    /\ out.op = "conflicts_with"
    /\ args.d1 # args.d2
    /\ RangeA = RangeB
    /\ RangeA.duration_minutes > 0
    /\ ~out.b

\* C7: for valid ranges A and B, zero-duration ones included,
\* A.overlaps_with(B) equals (A.end > B.start and B.end > A.start); it is
\* symmetric, and ranges that only share an endpoint do not overlap
\* (09:00-10:00 and 10:00-11:00 do not; 09:00-10:30 and 10:00-11:00 do, for
\* 30 minutes).
C7_OverlapStrictSymmetric ==
    /\ out.op = "overlaps_with" =>
        /\ out.b = StrictOverlap(RangeA, RangeB)
        /\ out.b = overlaps_with(RangeB, RangeA)
        /\ (RangeA.end_time = RangeB.start_time => ~out.b)
        /\ (/\ args.t1 = Time(9, 0, 0) /\ args.t2 = Time(10, 30, 0)
            /\ args.t3 = Time(10, 0, 0) /\ args.t4 = Time(11, 0, 0)
            => out.b)
    /\ out.op = "get_overlap_duration" =>
        (/\ args.t1 = Time(9, 0, 0) /\ args.t2 = Time(10, 30, 0)
         /\ args.t3 = Time(10, 0, 0) /\ args.t4 = Time(11, 0, 0)
         => out.n = 30)

\* Two ranges sharing the endpoint 10:00 were compared, and do not overlap.
C7_Witness ==
    /\ out.op = "overlaps_with"
    /\ args.t1 = Time(9, 0, 0) /\ args.t2 = Time(10, 0, 0)
    /\ args.t3 = Time(10, 0, 0) /\ args.t4 = Time(11, 0, 0)
    /\ ~out.b

\* C8: t.add_minutes(delta) is a valid Time whose minutes since midnight are
\* (t.to_minutes() + delta) mod 1440, for positive, zero and negative delta
\* (23:50 + 20 = 00:10, 00:10 - 20 = 23:50), and add_minutes(-delta) after
\* add_minutes(delta) gives the original time back.
C8_AddMinutesWraps ==
    /\ out.op = "add_minutes" =>
        /\ out.t.exc = "none"
        /\ out.t.hour \in 0..23 /\ out.t.minute \in 0..59
        /\ out.t.hour * 60 + out.t.minute
             = (args.t1.hour * 60 + args.t1.minute + args.delta) % 1440
        /\ (args.t1 = Time(23, 50, 0) /\ args.delta = 20
            => out.t = Time(0, 10, 0))
        /\ (args.t1 = Time(0, 10, 0) /\ args.delta = -20
            => out.t = Time(23, 50, 0))
    /\ out.op = "add_minutes_back" => out.t = args.t1

\* 00:10 - 20 wrapped backward to 23:50.
C8_Witness ==
    /\ out.op = "add_minutes"
    /\ args.t1 = Time(0, 10, 0) /\ args.delta = -20
    /\ out.t = Time(23, 50, 0)

\* C9: TimeRange(start, end) fails with a validation error iff end is before
\* start; it succeeds when end = start, and every constructed range has
\* end >= start and duration_minutes >= 0.
C9_TimeRangeValidation ==
    out.op = "TimeRange" =>
        /\ (out.r.exc = ValueError)
             = (SecondOfDay(args.t2) < SecondOfDay(args.t1))
        /\ (args.t1 = args.t2 => out.r.exc = "none")
        /\ (out.r.exc = "none" =>
              /\ out.r.start_time = args.t1 /\ out.r.end_time = args.t2
              /\ SecondOfDay(out.r.end_time) >= SecondOfDay(out.r.start_time)
              /\ out.r.duration_minutes >= 0)

\* A range of zero duration was constructed.
C9_Witness ==
    /\ out.op = "TimeRange"
    /\ args.t1 = args.t2
    /\ out.r.exc = "none"
    /\ out.r.duration_minutes = 0

(***************************************************************************)
(* Claims about the Schedule.                                              *)
(***************************************************************************)
CountIn(list, x) == Cardinality({i \in 1..Len(list) : list[i] = x})

\* The events of the list whose day is d, in list order.
EventsOnDay(d) == SelectSeq(events, LAMBDA e : day[e] = d)

StartsAscending(list) ==
    \A i \in 1..(Len(list) - 1) :
        SecondOfDay(time_range[list[i]].start_time)
            <= SecondOfDay(time_range[list[i + 1]].start_time)

\* after is before without one of its entries x.
OneRemoved(before, after, x) ==
    \E i \in 1..Len(before) :
        /\ before[i] = x
        /\ after = SubSeq(before, 1, i - 1) \o SubSeq(before, i + 1, Len(before))

\* No bucket's contents changed in the step.
BucketsUnchanged ==
    \A d \in Days : BucketOf(events_by_day', d) = BucketOf(events_by_day, d)

\* C1: after any sequence of add_event and remove_event calls (no day
\* reassigned), get_events_on_day(d) returns exactly the events of the list
\* whose day is d, with the same multiplicity, in ascending order of start.
C1_EventsOnDayExactSorted ==
    last.op = "get_events_on_day" =>
        /\ Len(last.list) = Len(EventsOnDay(last.day))
        /\ \A e \in EventIds :
               CountIn(last.list, e) = CountIn(EventsOnDay(last.day), e)
        /\ StartsAscending(last.list)

\* A day holding an event twice and a second event was queried, and the
\* result is not in the order the events were added.
C1_Witness ==
    /\ last.op = "get_events_on_day"
    /\ Len(last.list) = 3
    /\ \E e \in EventIds : CountIn(last.list, e) = 2
    /\ last.list # BucketOf(events_by_day, last.day)

\* Every bucket is exactly the events of the list on that day: the same
\* events, as often, in list order.
IndexExact ==
    \A d \in Days \cup DOMAIN events_by_day :
        BucketOf(events_by_day, d) = EventsOnDay(d)

\* C2, as claimed: in every state reachable through add_event, remove_event,
\* clear_all_events and Event.reschedule, every event of the list is in the
\* bucket of its current day, no bucket holds an event absent from the
\* list, and no event is in a bucket of a day other than its own.
C2_IndexReflectsList ==
    /\ \A i \in 1..Len(events) :
           Contains(BucketOf(events_by_day, day[events[i]]), events[i])
    /\ \A d \in DOMAIN events_by_day :
           \A j \in 1..Len(events_by_day[d]) :
               /\ Contains(events, events_by_day[d][j])
               /\ day[events_by_day[d][j]] = d

\* The step gives a new day to an event that is in the list.
OwnedDayChanged ==
    \E e \in EventIds : Contains(events, e) /\ day'[e] # day[e]

\* C2, amended: the index of a new schedule is exact, and every add_event,
\* remove_event and clear_all_events call, and every Event.reschedule that
\* does not change the day of an event in the list, keeps it exact.
C2_IndexExactUnlessOwnedDayChanged ==
    IndexExact /\ [][(IndexExact /\ ~OwnedDayChanged) => IndexExact']_vars

\* An event rescheduled while outside the schedule was added on its new day.
C2_Witness ==
    /\ last.op = "add_event"
    /\ status[last.event] = "rescheduled"
    /\ day[last.event] = 2
    /\ Len(events) >= 2
    /\ IndexExact

\* C3: a Schedule operation that fails (returns failure or raises) leaves
\* the event list and every bucket as they were before the call.
C3_FailedCallChangesNothing ==
    [][(last'.ret = "False" \/ last'.ret = ValueError) =>
          (events' = events /\ BucketsUnchanged)]_vars

\* The schedule holds another event on the day of e whose range overlaps.
HoldsConflict(e) ==
    \E i \in 1..Len(events) :
        /\ events[i] # e
        /\ day[events[i]] = day[e]
        /\ StrictOverlap(time_range[events[i]], time_range[e])

\* C4: add_event(event, check_conflicts=true) returns failure and leaves the
\* list and every bucket unchanged when the schedule holds another event on
\* event.day whose range overlaps; in every other case it returns success
\* and appends the event to the list and to the bucket of event.day.
C4_AddEventContract ==
    [][last'.op = "add_event" =>
          LET e == last'.event
          IN  IF last'.flag /\ HoldsConflict(e)
              THEN /\ last'.ret = "False"
                   /\ events' = events
                   /\ BucketsUnchanged
              ELSE /\ last'.ret = "True"
                   /\ events' = Append(events, e)
                   /\ \A d \in Days :
                          BucketOf(events_by_day', d) =
                              IF d = day[e]
                              THEN Append(BucketOf(events_by_day, d), e)
                              ELSE BucketOf(events_by_day, d)]_vars

\* A checked add was refused, and the schedule holds an event.
C4_Witness ==
    /\ last.op = "add_event"
    /\ last.flag
    /\ last.ret = "False"
    /\ HoldsConflict(last.event)

\* C5: remove_event(event) returns true and removes exactly one occurrence
\* of that event object from the list and from its day bucket when the
\* event is in the schedule, and returns false with the list and every
\* bucket unchanged when it is not; no other event is removed, identical
\* fields or not.
C5_RemoveEventByIdentity ==
    [][last'.op = "remove_event" =>
          LET e == last'.event
          IN  IF Contains(events, e)
              THEN /\ last'.ret = "True"
                   /\ OneRemoved(events, events', e)
                   /\ OneRemoved(BucketOf(events_by_day, day[e]),
                                 BucketOf(events_by_day', day[e]), e)
                   /\ \A d \in Days \ {day[e]} :
                          BucketOf(events_by_day', d) =
                              BucketOf(events_by_day, d)
              ELSE /\ last'.ret = "False"
                   /\ events' = events
                   /\ BucketsUnchanged]_vars

\* An event was removed; an event with the same day and range, added
\* before it, is still in the schedule.
C5_Witness ==
    /\ last.op = "remove_event"
    /\ last.ret = "True"
    /\ ~Contains(events, last.event)
    /\ \E i \in 1..Len(events) :
           /\ events[i] # last.event
           /\ ThisEvent(events[i]) = ThisEvent(last.event)

\* The one slot of an empty day: the working window 09:00-21:00.
FullWindow ==
    [exc |-> "none",
     start_time |-> [exc |-> "none", hour |-> 9, minute |-> 0, second |-> 0],
     end_time |-> [exc |-> "none", hour |-> 21, minute |-> 0, second |-> 0],
     duration_minutes |-> 720]

MaxChores == 2      \* Chore objects made at most

Tags == {"a", "b"}

\* The tag lists a caller passes to the constructor; tags=None gives a new
\* empty list.
InitialTagLists ==
    {<<>>, <<"a">>, <<"a", "b">>, <<"b", "a">>, <<"a", "a">>,
     <<"a", "b", "a">>}

RecurrenceDays == {1, 7}

\* Chore.__init__ and Event.__init__: the fields of the new object.
Chore(title, d, r, category, is_recurring, recurrence_days, estimated_effort, description, priority, tags, notes) ==
    [title |-> title, day |-> d, time_range |-> r,
     description |-> description, priority |-> priority,
     status |-> "scheduled", tags |-> tags, notes |-> notes,
     category |-> category, is_recurring |-> is_recurring,
     recurrence_days |-> recurrence_days,
     estimated_effort |-> estimated_effort]

\* Event.add_tag, on the contents of the list
add_tag(list, tag) ==
    IF ~Contains(list, tag) THEN Append(list, tag) ELSE list

\* Event.remove_tag: list.remove takes the first occurrence off.
remove_tag(list, tag) ==
    IF Contains(list, tag) THEN RemoveFirst(list, tag) ELSE list

\* A plausible slip: the new chore is given the tag list of the original,
\* not a copy of it.
get_next_occurrence_shared_tags(objects, lists, c) ==
    LET self == objects[c]
    IN  IF ~self.is_recurring
        THEN [ret |-> "None", chores |-> objects, tag_lists |-> lists]
        ELSE [ret |-> "Chore",
              chores |->
                  Append(objects,
                         Chore(self.title, self.day + self.recurrence_days,
                               self.time_range, self.category,
                               self.is_recurring, self.recurrence_days,
                               self.estimated_effort, self.description,
                               self.priority, self.tags, self.notes)),
              tag_lists |-> lists]

\* A plausible slip: the priority is not handed to the new chore, which
\* gets the default of the constructor.
get_next_occurrence_default_priority(objects, lists, c) ==
    LET self == objects[c]
    IN  IF ~self.is_recurring
        THEN [ret |-> "None", chores |-> objects, tag_lists |-> lists]
        ELSE [ret |-> "Chore",
              chores |->
                  Append(objects,
                         Chore(self.title, self.day + self.recurrence_days,
                               self.time_range, self.category,
                               self.is_recurring, self.recurrence_days,
                               self.estimated_effort, self.description,
                               "MEDIUM", Len(lists) + 1, self.notes)),
              tag_lists |-> Append(lists, lists[self.tags])]

\* Chore.get_next_occurrence: None, or a new Chore on the day
\* recurrence_days later, with a copy of the tag list.
get_next_occurrence(objects, lists, c) ==
    LET self == objects[c]
        next_day == self.day + self.recurrence_days
    IN  IF ~self.is_recurring
        THEN [ret |-> "None", chores |-> objects, tag_lists |-> lists]
        ELSE [ret |-> "Chore",
              chores |->
                  Append(objects,
                         Chore(self.title, next_day, self.time_range,
                               self.category, self.is_recurring,
                               self.recurrence_days, self.estimated_effort,
                               self.description, self.priority,
                               Len(lists) + 1, self.notes)),
              tag_lists |-> Append(lists, lists[self.tags])]

\* The priorities the chore is made with: the default and another.
ChorePriorities == {"MEDIUM", "HIGH"}

\* One chore, made with any of the tag lists, recurring or not.
InitChore ==
    /\ ScheduleNew
    /\ day = [e \in EventIds |-> 1]
    /\ time_range =
           [e \in EventIds |-> TimeRange(Time(9, 0, 0), Time(10, 0, 0))]
    /\ status = [e \in EventIds |-> "scheduled"]
    /\ args = NoArgs
    /\ out = NoOut
    /\ RegistryNew
    /\ FieldsNew
    /\ \E d \in Days, is_recurring \in BOOLEAN, n \in RecurrenceDays,
          priority \in ChorePriorities :
           chores =
               <<Chore("Laundry", d, TimeRange(Time(9, 0, 0), Time(10, 0, 0)),
                       "Cleaning", is_recurring, n, "Medium", "", priority,
                       1, "")>>
    /\ \E tags \in InitialTagLists : tag_lists = <<tags>>

AddTag(c, tag) ==
    /\ tag_lists' = [tag_lists EXCEPT ![chores[c].tags] = add_tag(@, tag)]
    /\ last' = [NoCall EXCEPT !.op = "add_tag", !.event = c, !.tag = tag]
    /\ UNCHANGED <<events, events_by_day, day, time_range, status, timeVars,
                 chores, registryVars, eventVars>>

RemoveTag(c, tag) ==
    /\ tag_lists' = [tag_lists EXCEPT ![chores[c].tags] = remove_tag(@, tag)]
    /\ last' = [NoCall EXCEPT !.op = "remove_tag", !.event = c, !.tag = tag]
    /\ UNCHANGED <<events, events_by_day, day, time_range, status, timeVars,
                 chores, registryVars, eventVars>>

\* Event.mark_completed, on a Chore object
MarkChoreCompleted(c) ==
    /\ chores' = [chores EXCEPT ![c].status = "completed"]
    /\ last' = [NoCall EXCEPT !.op = "mark_completed", !.event = c]
    /\ UNCHANGED <<events, events_by_day, day, time_range, status, timeVars,
                 tag_lists, registryVars, eventVars>>

GetNextOccurrence(c) ==
    LET r == get_next_occurrence(chores, tag_lists, c)
    IN  /\ Len(r.chores) <= MaxChores
        /\ chores' = r.chores
        /\ tag_lists' = r.tag_lists
        /\ last' = [NoCall EXCEPT !.op = "get_next_occurrence", !.event = c,
                                  !.ret = r.ret,
                                  !.n = IF r.ret = "Chore" THEN Len(r.chores)
                                        ELSE 0]
        /\ UNCHANGED <<events, events_by_day, day, time_range, status,
                     timeVars, registryVars, eventVars>>

NextChore ==
    \/ \E c \in 1..Len(chores), tag \in Tags : AddTag(c, tag)
    \/ \E c \in 1..Len(chores), tag \in Tags : RemoveTag(c, tag)
    \/ \E c \in 1..Len(chores) : GetNextOccurrence(c)
    \/ \E c \in 1..Len(chores) : MarkChoreCompleted(c)

SpecChore == InitChore /\ [][NextChore]_vars

(***************************************************************************)
(* scheduler_server.py: the registry of named schedules and the active     *)
(* selection.  A tool's outcome is "str" (its message), "dict" (the new    *)
(* event) or the exception it raises.                                      *)
(***************************************************************************)
ScheduleNames == {"default", "work", "home"}

KeyError == "KeyError"

\* create_schedule
create_schedule(registry, active, name) ==
    IF name \in DOMAIN registry
    THEN [ret |-> ValueError, schedules |-> registry,
          active_schedule_name |-> active]
    ELSE [ret |-> "str",
          schedules |->
              [k \in (DOMAIN registry) \cup {name} |->
                  IF k = name THEN EmptySchedule ELSE registry[k]],
          active_schedule_name |-> active]

\* set_active_schedule
set_active_schedule(registry, active, name) ==
    IF name \notin DOMAIN registry
    THEN [ret |-> ValueError, schedules |-> registry,
          active_schedule_name |-> active]
    ELSE [ret |-> "str", schedules |-> registry,
          active_schedule_name |-> name]

\* A plausible slip: the default schedule is deleted like any other.
delete_schedule_any(registry, active, name) ==
    IF name \notin DOMAIN registry
    THEN [ret |-> ValueError, schedules |-> registry,
          active_schedule_name |-> active]
    ELSE [ret |-> "str",
          schedules |-> [k \in (DOMAIN registry) \ {name} |-> registry[k]],
          active_schedule_name |->
              IF name = active THEN "default" ELSE active]

\* A plausible slip: the active selection is left on the deleted schedule.
delete_schedule_keeps_active(registry, active, name) ==
    IF name \notin DOMAIN registry
    THEN [ret |-> ValueError, schedules |-> registry,
          active_schedule_name |-> active]
    ELSE IF name = "default"
    THEN [ret |-> ValueError, schedules |-> registry,
          active_schedule_name |-> active]
    ELSE [ret |-> "str",
          schedules |-> [k \in (DOMAIN registry) \ {name} |-> registry[k]],
          active_schedule_name |-> active]

\* delete_schedule
delete_schedule(registry, active, name) ==
    IF name \notin DOMAIN registry
    THEN [ret |-> ValueError, schedules |-> registry,
          active_schedule_name |-> active]
    ELSE IF name = "default"
    THEN [ret |-> ValueError, schedules |-> registry,
          active_schedule_name |-> active]
    ELSE [ret |-> "str",
          schedules |-> [k \in (DOMAIN registry) \ {name} |-> registry[k]],
          active_schedule_name |->
              IF name = active THEN "default" ELSE active]

\* clear_schedule: get_active_schedule() raises KeyError when the active
\* name is no key of the registry.
clear_schedule(registry, active) ==
    IF active \notin DOMAIN registry
    THEN [ret |-> KeyError, schedules |-> registry,
          active_schedule_name |-> active]
    ELSE [ret |-> "str",
          schedules |-> [registry EXCEPT ![active] = EmptySchedule],
          active_schedule_name |-> active]

\* create_appointment with valid arguments: the new Appointment object is
\* added to the active schedule.
create_appointment(registry, active, appointment) ==
    IF active \notin DOMAIN registry
    THEN [ret |-> KeyError, schedules |-> registry,
          active_schedule_name |-> active]
    ELSE LET schedule == registry[active]
             r == add_event(schedule.events, schedule.events_by_day,
                            appointment, FALSE)
         IN  [ret |-> "dict",
              schedules |->
                  [registry EXCEPT ![active] =
                      [events |-> r.events,
                       events_by_day |-> r.events_by_day]],
              active_schedule_name |-> active]

\* The step of a tool with outcome r.
ToolStep(op, name, r) ==
    /\ schedules' = r.schedules
    /\ active_schedule_name' = r.active_schedule_name
    /\ last' = [NoCall EXCEPT !.op = op, !.name = name, !.ret = r.ret,
                              !.flag = (name = active_schedule_name)]
    /\ UNCHANGED <<events, events_by_day, day, time_range, status, timeVars,
                 choreVars, eventVars>>

CreateSchedule(name) ==
    ToolStep("create_schedule", name,
             create_schedule(schedules, active_schedule_name, name))

SetActiveSchedule(name) ==
    ToolStep("set_active_schedule", name,
             set_active_schedule(schedules, active_schedule_name, name))

DeleteSchedule(name) ==
    ToolStep("delete_schedule", name,
             delete_schedule(schedules, active_schedule_name, name))

ClearSchedule ==
    ToolStep("clear_schedule", "",
             clear_schedule(schedules, active_schedule_name))

\* The Appointment made is a new object: no schedule holds it yet.
CreateAppointment(e) ==
    /\ \A k \in DOMAIN schedules : ~Contains(schedules[k].events, e)
    /\ ToolStep("create_appointment", "",
                create_appointment(schedules, active_schedule_name, e))

NextRegistry ==
    \/ \E name \in ScheduleNames : CreateSchedule(name)
    \/ \E name \in ScheduleNames : SetActiveSchedule(name)
    \/ \E name \in ScheduleNames : DeleteSchedule(name)
    \/ ClearSchedule
    \/ \E e \in EventIds : CreateAppointment(e)

SpecRegistry == Init /\ [][NextRegistry]_vars

(***************************************************************************)
(* scheduler_server.py: the status and priority tokens of the tools.  A    *)
(* token is the string a caller passes, as the sequence of its characters. *)
(***************************************************************************)
UpperLetters ==
    <<"A", "B", "C", "D", "E", "F", "G", "H", "I", "J", "K", "L", "M", "N",
      "O", "P", "Q", "R", "S", "T", "U", "V", "W", "X", "Y", "Z">>
LowerLetters ==
    <<"a", "b", "c", "d", "e", "f", "g", "h", "i", "j", "k", "l", "m", "n",
      "o", "p", "q", "r", "s", "t", "u", "v", "w", "x", "y", "z">>

\* str.lower() and str.upper(): every letter is replaced, and no other
\* character.
lower(token) ==
    [i \in 1..Len(token) |->
        IF \E k \in 1..26 : UpperLetters[k] = token[i]
        THEN LowerLetters[CHOOSE k \in 1..26 : UpperLetters[k] = token[i]]
        ELSE token[i]]
upper(token) ==
    [i \in 1..Len(token) |->
        IF \E k \in 1..26 : LowerLetters[k] = token[i]
        THEN UpperLetters[CHOOSE k \in 1..26 : LowerLetters[k] = token[i]]
        ELSE token[i]]

\* The values of EventStatus and the names of EventPriority, as strings of
\* characters.
StatusValues ==
    {<<"s", "c", "h", "e", "d", "u", "l", "e", "d">>,
     <<"i", "n", "_", "p", "r", "o", "g", "r", "e", "s", "s">>,
     <<"c", "o", "m", "p", "l", "e", "t", "e", "d">>,
     <<"c", "a", "n", "c", "e", "l", "l", "e", "d">>,
     <<"r", "e", "s", "c", "h", "e", "d", "u", "l", "e", "d">>}
PriorityNames ==
    {<<"L", "O", "W">>, <<"M", "E", "D", "I", "U", "M">>,
     <<"H", "I", "G", "H">>, <<"U", "R", "G", "E", "N", "T">>}

\* The string that a sequence of characters spells, for the tokens above.
NameOf(token) ==
    CASE token = <<"s", "c", "h", "e", "d", "u", "l", "e", "d">> -> "scheduled"
      [] token = <<"i", "n", "_", "p", "r", "o", "g", "r", "e", "s", "s">>
             -> "in_progress"
      [] token = <<"c", "o", "m", "p", "l", "e", "t", "e", "d">> -> "completed"
      [] token = <<"c", "a", "n", "c", "e", "l", "l", "e", "d">> -> "cancelled"
      [] token = <<"r", "e", "s", "c", "h", "e", "d", "u", "l", "e", "d">>
             -> "rescheduled"
      [] token = <<"L", "O", "W">> -> "LOW"
      [] token = <<"M", "E", "D", "I", "U", "M">> -> "MEDIUM"
      [] token = <<"H", "I", "G", "H">> -> "HIGH"
      [] token = <<"U", "R", "G", "E", "N", "T">> -> "URGENT"
      [] OTHER -> KeyError

\* status_map[status.lower()] of get_events_by_status and of
\* update_event_status: the EventStatus, or the KeyError of the dictionary.
status_map(token) ==
    IF lower(token) \in StatusValues THEN NameOf(lower(token))
    ELSE KeyError

\* EventPriority[priority] of get_events_by_priority and of
\* update_event_priority: the member of that name, or the KeyError.
EventPriority(token) ==
    IF token \in PriorityNames THEN NameOf(token) ELSE KeyError

\* The tokens tried: every status value and every priority name in lower
\* case, in upper case and with a capital first letter, and some strings
\* that are neither.
Capitalized(token) == upper(SubSeq(token, 1, 1)) \o lower(Tail(token))

TokenSamples ==
    LET names == StatusValues \cup PriorityNames
    IN  {lower(t) : t \in names} \cup {upper(t) : t \in names}
            \cup {Capitalized(t) : t \in names}
            \cup {<<>>, <<"d", "o", "n", "e">>,
                  <<"C", "R", "I", "T", "I", "C", "A", "L">>,
                  <<"c", "o", "m", "p", "l", "e", "t", "e", "d">> \o <<" ">>,
                  <<"i", "n", "-", "p", "r", "o", "g", "r", "e", "s", "s">>}

TokenArgs == {[NoArgs EXCEPT !.kind = "token", !.token = t] : t \in TokenSamples}

\* The token, beside an empty schedule that the conversions never touch.
InitTokens ==
    /\ ScheduleNew
    /\ day = [e \in EventIds |-> 1]
    /\ time_range = [e \in EventIds |-> TimeRange(Time(9, 0, 0), Time(10, 0, 0))]
    /\ status = [e \in EventIds |-> "scheduled"]
    /\ args \in TokenArgs
    /\ out = NoOut
    /\ NoChores
    /\ RegistryNew
    /\ FieldsNew

\* The conversion of the status argument in get_events_by_status
GetEventsByStatusToken ==
    /\ args.kind = "token" /\ out.op = "none"
    /\ out' = [NoOut EXCEPT !.op = "get_events_by_status",
                            !.s = status_map(args.token)]
    /\ UNCHANGED <<schedVars, args, choreVars, registryVars, eventVars>>

\* The conversion of the new_status argument in update_event_status
UpdateEventStatusToken ==
    /\ args.kind = "token" /\ out.op = "none"
    /\ out' = [NoOut EXCEPT !.op = "update_event_status",
                            !.s = status_map(args.token)]
    /\ UNCHANGED <<schedVars, args, choreVars, registryVars, eventVars>>

\* The conversion of the priority argument in get_events_by_priority
GetEventsByPriorityToken ==
    /\ args.kind = "token" /\ out.op = "none"
    /\ out' = [NoOut EXCEPT !.op = "get_events_by_priority",
                            !.s = EventPriority(args.token)]
    /\ UNCHANGED <<schedVars, args, choreVars, registryVars, eventVars>>

\* The conversion of the new_priority argument in update_event_priority
UpdateEventPriorityToken ==
    /\ args.kind = "token" /\ out.op = "none"
    /\ out' = [NoOut EXCEPT !.op = "update_event_priority",
                            !.s = EventPriority(args.token)]
    /\ UNCHANGED <<schedVars, args, choreVars, registryVars, eventVars>>

NextTokens ==
    \/ GetEventsByStatusToken
    \/ UpdateEventStatusToken
    \/ GetEventsByPriorityToken
    \/ UpdateEventPriorityToken

SpecTokens == InitTokens /\ [][NextTokens]_vars

(***************************************************************************)
(* scheduler_server.py: the tools that name an event by its title.  The    *)
(* outcome of a tool is what it returns or raises, with the registry and   *)
(* the status, priority and tags of the event objects as it leaves them.   *)
(***************************************************************************)
Outcome(ret, registry, st, pr, tg) ==
    [ret |-> ret, schedules |-> registry, status |-> st, priority |-> pr,
     tags |-> tg]

\* The outcome of a tool that raised exc before it changed anything.
Raised(exc, registry) == Outcome(exc, registry, status, priority_of, tags_of)

\* [e for e in schedule.events if e.title == event_title]
matching_events(schedule, event_title) ==
    SelectSeq(schedule.events, LAMBDA e : title_of[e] = event_title)

\* update_event_status
update_event_status(registry, active, event_title, new_status) ==
    IF active \notin DOMAIN registry THEN Raised(KeyError, registry)
    ELSE IF matching_events(registry[active], event_title) = <<>>
    THEN Raised(ValueError, registry)
    ELSE IF status_map(new_status) = KeyError THEN Raised(KeyError, registry)
    ELSE LET event == matching_events(registry[active], event_title)[1]
         IN  Outcome("dict", registry,
                     [status EXCEPT ![event] = status_map(new_status)],
                     priority_of, tags_of)

\* update_event_priority
update_event_priority(registry, active, event_title, new_priority) ==
    IF active \notin DOMAIN registry THEN Raised(KeyError, registry)
    ELSE IF matching_events(registry[active], event_title) = <<>>
    THEN Raised(ValueError, registry)
    ELSE IF EventPriority(new_priority) = KeyError
    THEN Raised(KeyError, registry)
    ELSE LET event == matching_events(registry[active], event_title)[1]
         IN  Outcome("dict", registry, status,
                     [priority_of EXCEPT
                         ![event] = EventPriority(new_priority)],
                     tags_of)

\* for tag in tags: event.add_tag(tag), and the same with remove_tag
RECURSIVE AddTags(_, _)
AddTags(list, new_tags) ==
    IF new_tags = <<>> THEN list
    ELSE AddTags(add_tag(list, Head(new_tags)), Tail(new_tags))

RECURSIVE RemoveTags(_, _)
RemoveTags(list, old_tags) ==
    IF old_tags = <<>> THEN list
    ELSE RemoveTags(remove_tag(list, Head(old_tags)), Tail(old_tags))

\* add_tags_to_event
add_tags_to_event(registry, active, event_title, new_tags) ==
    IF active \notin DOMAIN registry THEN Raised(KeyError, registry)
    ELSE IF matching_events(registry[active], event_title) = <<>>
    THEN Raised(ValueError, registry)
    ELSE LET event == matching_events(registry[active], event_title)[1]
         IN  Outcome("dict", registry, status, priority_of,
                     [tags_of EXCEPT ![event] = AddTags(@, new_tags)])

\* remove_tags_from_event
remove_tags_from_event(registry, active, event_title, old_tags) ==
    IF active \notin DOMAIN registry THEN Raised(KeyError, registry)
    ELSE IF matching_events(registry[active], event_title) = <<>>
    THEN Raised(ValueError, registry)
    ELSE LET event == matching_events(registry[active], event_title)[1]
         IN  Outcome("dict", registry, status, priority_of,
                     [tags_of EXCEPT ![event] = RemoveTags(@, old_tags)])

\* delete_event: Schedule.remove_event on the first event of that title.
delete_event(registry, active, event_title) ==
    IF active \notin DOMAIN registry THEN Raised(KeyError, registry)
    ELSE IF matching_events(registry[active], event_title) = <<>>
    THEN Raised(ValueError, registry)
    ELSE LET schedule == registry[active]
             event == matching_events(schedule, event_title)[1]
             r == remove_event(schedule.events, schedule.events_by_day, event)
         IN  Outcome(IF r.ret = ValueError THEN ValueError ELSE "str",
                     [registry EXCEPT ![active] =
                         [events |-> r.events,
                          events_by_day |-> r.events_by_day]],
                     status, priority_of, tags_of)

\* The step of a tool that takes an event title, with outcome r.
EventToolStep(op, event_title, token, r) ==
    /\ schedules' = r.schedules
    /\ status' = r.status
    /\ priority_of' = r.priority
    /\ tags_of' = r.tags
    /\ last' = [NoCall EXCEPT !.op = op, !.name = event_title,
                              !.token = token, !.ret = r.ret]
    /\ UNCHANGED <<events, events_by_day, day, time_range, timeVars,
                 choreVars, active_schedule_name, title_of>>

UpdateEventStatus(event_title, new_status) ==
    EventToolStep("update_event_status", event_title, new_status,
                  update_event_status(schedules, active_schedule_name,
                                      event_title, new_status))

UpdateEventPriority(event_title, new_priority) ==
    EventToolStep("update_event_priority", event_title, new_priority,
                  update_event_priority(schedules, active_schedule_name,
                                        event_title, new_priority))

AddTagsToEvent(event_title, new_tags) ==
    EventToolStep("add_tags_to_event", event_title, new_tags,
                  add_tags_to_event(schedules, active_schedule_name,
                                    event_title, new_tags))

RemoveTagsFromEvent(event_title, old_tags) ==
    EventToolStep("remove_tags_from_event", event_title, old_tags,
                  remove_tags_from_event(schedules, active_schedule_name,
                                         event_title, old_tags))

DeleteEvent(event_title) ==
    EventToolStep("delete_event", event_title, <<>>,
                  delete_event(schedules, active_schedule_name, event_title))

\* The event object is as its constructor leaves it: the appointment that
\* create_appointment makes is a new object.
CreateNewAppointment(e) ==
    /\ status[e] = "scheduled"
    /\ priority_of[e] = "MEDIUM"
    /\ tags_of[e] = <<>>
    /\ CreateAppointment(e)

\* The titles, names, tokens and tags the tools are called with: those of
\* events and schedules that exist, and some of none.
TitlesAsked == {"Standup", "Laundry", "Nothing"}
NamesMade == {"default", "work"}
StatusTokensAsked ==
    {<<"c", "o", "m", "p", "l", "e", "t", "e", "d">>,
     <<"C", "O", "M", "P", "L", "E", "T", "E", "D">>,
     <<"d", "o", "n", "e">>}
PriorityTokensAsked == {<<"H", "I", "G", "H">>, <<"h", "i", "g", "h">>}
TagListsAsked == {<<"a", "b">>}

\* The module as loaded, and two event objects not yet in a schedule, of
\* two titles or of one.
InitAdapter ==
    /\ ScheduleNew
    /\ day = [e \in EventIds |-> 1]
    /\ time_range =
           [e \in EventIds |-> TimeRange(Time(9, 0, 0), Time(10, 0, 0))]
    /\ status = [e \in EventIds |-> "scheduled"]
    /\ args = NoArgs
    /\ out = NoOut
    /\ NoChores
    /\ RegistryNew
    /\ \E second \in {"Standup", "Laundry"} :
           title_of = [e \in EventIds |-> IF e = 1 THEN "Standup" ELSE second]
    /\ priority_of = [e \in EventIds |-> "MEDIUM"]
    /\ tags_of = [e \in EventIds |-> <<>>]

NextAdapter ==
    \/ \E name \in NamesMade : CreateSchedule(name)
    \/ \E name \in ScheduleNames : SetActiveSchedule(name)
    \/ \E name \in ScheduleNames : DeleteSchedule(name)
    \/ \E e \in EventIds : CreateNewAppointment(e)
    \/ \E t \in TitlesAsked, token \in StatusTokensAsked :
           UpdateEventStatus(t, token)
    \/ \E t \in TitlesAsked, token \in PriorityTokensAsked :
           UpdateEventPriority(t, token)
    \/ \E t \in TitlesAsked, new_tags \in TagListsAsked :
           AddTagsToEvent(t, new_tags)
    \/ \E t \in TitlesAsked, old_tags \in TagListsAsked :
           RemoveTagsFromEvent(t, old_tags)
    \/ \E t \in TitlesAsked : DeleteEvent(t)

SpecAdapter == InitAdapter /\ [][NextAdapter]_vars

(***************************************************************************)
(* Claims about the free slots of a day that holds events.                 *)
(***************************************************************************)
MinuteOfDay(t) == t.hour * 60 + t.minute

\* The later of two times on the wall clock.
Later(t, u) == IF SecondOfDay(u) > SecondOfDay(t) THEN u ELSE t

\* The cursor before entry i of the day's events in start order: 09:00, or
\* the latest end of an earlier entry when that is later.
RECURSIVE CursorBefore(_, _)
CursorBefore(sorted, i) ==
    IF i = 1 THEN Time(9, 0, 0)
    ELSE Later(CursorBefore(sorted, i - 1), time_range[sorted[i - 1]].end_time)

\* The gaps of the day, in order: from the cursor to each event's start, and
\* from the cursor to 21:00 after the last event.
Gaps(sorted) ==
    [i \in 1..(Len(sorted) + 1) |->
        [start_time |-> CursorBefore(sorted, i),
         end_time |-> IF i <= Len(sorted)
                      THEN time_range[sorted[i]].start_time
                      ELSE Time(21, 0, 0)]]

GapMinutes(g) == MinuteOfDay(g.end_time) - MinuteOfDay(g.start_time)

\* The gaps that do not end before they start and last n minutes or more.
GapsOfAtLeast(sorted, n) ==
    SelectSeq(Gaps(sorted),
              LAMBDA g : /\ SecondOfDay(g.end_time) >= SecondOfDay(g.start_time)
                         /\ GapMinutes(g) >= n)

\* The slots are the given gaps, one for one and in the same order.
SlotsAre(slots, gaps) ==
    /\ Len(slots) = Len(gaps)
    /\ \A i \in 1..Len(slots) :
           /\ slots[i].exc = "none"
           /\ slots[i].start_time = gaps[i].start_time
           /\ slots[i].end_time = gaps[i].end_time

\* The ranges of the events of day d, in start order.
RangesOnDay(d) ==
    LET sorted == SortByStart(EventsOnDay(d))
    IN  [i \in 1..Len(sorted) |-> time_range[sorted[i]]]

Slot(h1, h2) == TimeRange(Time(h1, 0, 0), Time(h2, 0, 0))

\* C11: for a day with at least one event, get_free_time_slots(day,
\* min_duration) returns, in chronological order, exactly the gaps of at
\* least min_duration minutes between the cursor (09:00 or the latest event
\* end seen so far) and the next event's start, followed by the gap from
\* the cursor to 21:00 if it is that long; every returned slot has
\* duration_minutes >= min_duration (events 10:00-11:00 and 14:00-15:00
\* with min_duration 60 give 09:00-10:00, 11:00-14:00, 15:00-21:00).
C11_SlotsAreTheGaps ==
    (last.op = "get_free_time_slots" /\ EventsOnDay(last.day) # <<>>) =>
        /\ last.ret = "List"
        /\ SlotsAre(last.slots,
                    GapsOfAtLeast(SortByStart(EventsOnDay(last.day)), last.n))
        /\ \A i \in 1..Len(last.slots) :
               last.slots[i].duration_minutes >= last.n
        /\ \A i \in 1..(Len(last.slots) - 1) :
               SecondOfDay(last.slots[i].start_time)
                   <= SecondOfDay(last.slots[i + 1].start_time)
        /\ (/\ RangesOnDay(last.day) = <<Slot(10, 11), Slot(14, 15)>>
            /\ last.n = 60
            => last.slots = <<Slot(9, 10), Slot(11, 14), Slot(15, 21)>>)

\* The day holds exactly 10:00-11:00 and 14:00-15:00, and was asked for
\* slots of 200 minutes.
TwoMeetingsAsked200 ==
    /\ last.op = "get_free_time_slots"
    /\ last.n = 200
    /\ RangesOnDay(last.day) = <<Slot(10, 11), Slot(14, 15)>>

\* C12, as claimed: for a day holding exactly the events 10:00-11:00 and
\* 14:00-15:00, get_free_time_slots with min_duration 200 keeps only the
\* 3-hour gap 11:00-14:00.
C12_Only3HourGap ==
    TwoMeetingsAsked200 => last.slots = <<Slot(11, 14)>>

\* C12, amended: for that day and min_duration 200 the two 1-hour gaps
\* and the 3-hour gap (180 minutes) are left out, and the one slot returned
\* is the 6-hour gap 15:00-21:00 after the last event.
C12_Only6HourGap ==
    TwoMeetingsAsked200 =>
        /\ last.ret = "List"
        /\ last.slots = <<Slot(15, 21)>>

\* That day was asked, and the result is the gap after the last event.
C12_Witness ==
    /\ TwoMeetingsAsked200
    /\ last.slots = <<Slot(15, 21)>>

(***************************************************************************)
(* Claims about the events' own operations.                                *)
(***************************************************************************)
Statuses ==
    {"scheduled", "in_progress", "completed", "cancelled", "rescheduled"}

\* Every event was made with the status SCHEDULED.
MadeScheduled == \A e \in EventIds : status[e] = "scheduled"

\* The mark operations can be called whatever the status is.
MarksUnconditional ==
    \A e \in EventIds :
        /\ ENABLED MarkCompleted(e)
        /\ ENABLED MarkCancelled(e)
        /\ ENABLED MarkInProgress(e)

\* The step's status operation sets the status of its event, and of no
\* other event.
MarkSetsStatus ==
    /\ last'.op = "mark_completed" => status'[last'.event] = "completed"
    /\ last'.op = "mark_cancelled" => status'[last'.event] = "cancelled"
    /\ last'.op = "mark_in_progress" => status'[last'.event] = "in_progress"
    /\ last'.op = "reschedule" => status'[last'.event] = "rescheduled"
    /\ \A e \in EventIds \ {last'.event} : status'[e] = status[e]

\* Event e has status t, or one status operation gives it.
Reaches(e, t) ==
    status[e] = t \/ ENABLED (StatusOperation(e) /\ status'[e] = t)

MoveRemove(e) ==
    LET r == remove_event(events, events_by_day, e)
    IN  /\ Contains(events, e)
        /\ events' = r.events
        /\ events_by_day' = r.events_by_day
        /\ last' = [NoCall EXCEPT
                       !.op = "remove_event", !.event = e, !.ret = r.ret,
                       !.step = IF r.ret = "True" THEN "removed" ELSE "none",
                       !.flag = IndexExact, !.n = CountIn(events, e)]
        /\ UNCHANGED <<day, time_range, status, timeVars, choreVars,
                     registryVars, eventVars>>

MoveReschedule(new_day, new_time_range) ==
    /\ last.step = "removed"
    /\ reschedule(last.event, new_day, new_time_range)
    /\ last' = [last EXCEPT !.op = "reschedule", !.ret = "None",
                            !.day = new_day, !.time_range = new_time_range,
                            !.step = "rescheduled"]
    /\ UNCHANGED <<events, events_by_day, timeVars, choreVars,
                 registryVars, eventVars>>

MoveAdd ==
    LET r == add_event(events, events_by_day, last.event, FALSE)
    IN  /\ last.step = "rescheduled"
        /\ events' = r.events
        /\ events_by_day' = r.events_by_day
        /\ last' = [last EXCEPT !.op = "add_event", !.ret = r.ret,
                                !.step = "added"]
        /\ UNCHANGED <<day, time_range, status, timeVars, choreVars,
                     registryVars, eventVars>>

\* Calls on the schedule and on its events, and moves of events it holds;
\* a move that has begun is finished before anything else is called.
NextMove ==
    \/ /\ last.step \notin {"removed", "rescheduled"}
       /\ \/ \E e \in EventIds, c \in BOOLEAN : AddEvent(e, c)
          \/ \E e \in EventIds : RemoveEvent(e)
          \/ \E e \in EventIds : MarkCompleted(e)
          \/ \E e \in EventIds : MoveRemove(e)
    \/ \E d \in Days, r \in RescheduleRanges : MoveReschedule(d, r)
    \/ MoveAdd

SpecMove == Init /\ [][NextMove]_vars

\* reschedule sets the day and the range to its arguments and the status
\* to RESCHEDULED.
RescheduleSetsFields ==
    last'.op = "reschedule" =>
        /\ day'[last'.event] = last'.day
        /\ time_range'[last'.event] = last'.time_range
        /\ status'[last'.event] = "rescheduled"

\* Event e is in the bucket of its day and in no other bucket.
InOwnBucketOnly(e) ==
    /\ Contains(BucketOf(events_by_day, day[e]), e)
    /\ \A d \in DOMAIN events_by_day :
           d # day[e] => ~Contains(events_by_day[d], e)

\* C14, as claimed: Event.reschedule(new_day, new_range) sets day and
\* time_range to the arguments and status to RESCHEDULED whatever the prior
\* status; after an event a schedule holds is moved by remove_event(e),
\* e.reschedule(...), add_event(e), the index invariant holds (as it did
\* before the move) and e is in the bucket of its new day and in no other.
C14_MoveKeepsIndex ==
    /\ [][RescheduleSetsFields]_vars
    /\ []((last.step = "added" /\ last.flag) =>
            /\ C2_IndexReflectsList
            /\ InOwnBucketOnly(last.event))

\* C14, amended: reschedule sets day, time_range and status as claimed; the
\* move keeps the index exact and leaves e in the bucket of its new day
\* only when the index was exact before and the list held e exactly once.
\* The list may hold an event more than once: remove_event then takes one
\* occurrence off, and the reschedule changes the day of an event that is
\* still in the list.
C14_MoveOfSingleKeepsIndex ==
    /\ [][RescheduleSetsFields]_vars
    /\ []((last.step = "added" /\ last.flag /\ last.n = 1) =>
            /\ IndexExact
            /\ InOwnBucketOnly(last.event)
            /\ CountIn(events, last.event) = 1)

\* A completed event, held once beside another event, was moved to day 2.
C14_Witness ==
    /\ last.step = "added"
    /\ last.flag /\ last.n = 1
    /\ day[last.event] = 2
    /\ status[last.event] = "rescheduled"
    /\ Len(events) >= 2
    /\ \E e \in EventIds : status[e] = "completed"

(***************************************************************************)
(* Claims about tags and about the next occurrence of a chore.             *)
(***************************************************************************)
\* The tags of chore c, in this state and in the next.
TagsOf(c) == tag_lists[chores[c].tags]
TagsOfNext(c) == tag_lists'[chores'[c].tags]

NoDuplicates(list) ==
    \A i, j \in 1..Len(list) : list[i] = list[j] => i = j

\* The list without the tag: the other tags, in their order.
Without(list, tag) == SelectSeq(list, LAMBDA x : x # tag)

\* add_tag leaves a list that holds the tag and that a second add_tag of
\* it would not change; it appends a new tag and changes nothing else.
AddTagAsToSet ==
    last'.op = "add_tag" =>
        LET before == TagsOf(last'.event)
            after == TagsOfNext(last'.event)
        IN  /\ Contains(after, last'.tag)
            /\ add_tag(after, last'.tag) = after
            /\ after = IF Contains(before, last'.tag) THEN before
                       ELSE Append(before, last'.tag)

\* remove_tag leaves a list without the tag, holding the other tags in
\* their order; the list of an absent tag is left as it was.
RemoveTagAsFromSet ==
    last'.op = "remove_tag" =>
        LET before == TagsOf(last'.event)
            after == TagsOfNext(last'.event)
        IN  /\ ~Contains(after, last'.tag)
            /\ after = Without(before, last'.tag)
            /\ (~Contains(before, last'.tag) => after = before)

\* C15: an event's tags behave as an insertion-ordered set: in every state
\* reachable from construction (with any caller-supplied initial tag list)
\* through add_tag and remove_tag the tag list holds no duplicate;
\* add_tag(t) twice equals add_tag(t) once, remove_tag(t) of an absent tag
\* changes nothing, and the order of the remaining tags is kept.
C15_TagsAreOrderedSet ==
    /\ [](\A c \in 1..Len(chores) : NoDuplicates(TagsOf(c)))
    /\ [][AddTagAsToSet]_vars
    /\ [][RemoveTagAsFromSet]_vars

\* C16: for a recurring Chore c on day D with recurrence_days = n,
\* get_next_occurrence() returns a new Chore whose day is D + n days, with
\* the same title, category and tags (equal by value), and leaves every
\* field of c unchanged; for a chore that does not recur it returns
\* nothing; a later add_tag or remove_tag on either chore does not change
\* the tags of the other.
C16_NextOccurrenceIsIndependentCopy ==
    /\ [][last'.op = "get_next_occurrence" =>
             LET self == chores[last'.event]
             IN  IF self.is_recurring
                 THEN /\ last'.ret = "Chore"
                      /\ Len(chores') = Len(chores) + 1
                      /\ last'.n = Len(chores')
                      /\ chores'[last'.n].day = self.day + self.recurrence_days
                      /\ chores'[last'.n].title = self.title
                      /\ chores'[last'.n].category = self.category
                      /\ TagsOfNext(last'.n) = TagsOf(last'.event)
                      /\ \A c \in 1..Len(chores) :
                             /\ chores'[c] = chores[c]
                             /\ TagsOfNext(c) = TagsOf(c)
                 ELSE /\ last'.ret = "None"
                      /\ chores' = chores
                      /\ tag_lists' = tag_lists]_vars
    /\ [][last'.op \in {"add_tag", "remove_tag"} =>
             \A c \in 1..Len(chores) :
                 c # last'.event => TagsOfNext(c) = TagsOf(c)]_vars

\* The next occurrence of a weekly chore was given a tag that the chore
\* itself does not have.
C16_Witness ==
    /\ last.op = "add_tag"
    /\ last.event = 2
    /\ Len(chores) = 2
    /\ chores[1].is_recurring
    /\ chores[2].day = chores[1].day + 7
    /\ Contains(TagsOf(2), last.tag)
    /\ ~Contains(TagsOf(1), last.tag)
    /\ TagsOf(1) # <<>>

(***************************************************************************)
(* Claims about the queries of the Schedule.                               *)
(***************************************************************************)
\* The places of the list whose event is on from_day or later.
UpcomingPlaces(from_day) ==
    {i \in 1..Len(events) : day[events[i]] >= from_day}

\* The event at place j comes before the event at place i: on an earlier
\* day, on the same day with an earlier start, or with the same day and
\* start and added earlier.
ComesBefore(j, i) ==
    LET a == events[j]
        b == events[i]
        sa == SecondOfDay(time_range[a].start_time)
        sb == SecondOfDay(time_range[b].start_time)
    IN  \/ day[a] < day[b]
        \/ day[a] = day[b] /\ sa < sb
        \/ day[a] = day[b] /\ sa = sb /\ j < i

\* The upcoming events in ascending order of (day, start), insertion order
\* kept among equal keys.
UpcomingInOrder(from_day) ==
    LET places == UpcomingPlaces(from_day)
        PlaceAt(k) ==
            CHOOSE i \in places :
                Cardinality({j \in places : ComesBefore(j, i)}) = k - 1
    IN  [k \in 1..Cardinality(places) |-> events[PlaceAt(k)]]

\* The first n entries of the list: all of it when it is shorter, none of
\* it when n is not positive.
FirstN(list, n) ==
    [k \in 1..(IF n > Len(list) THEN Len(list) ELSE IF n < 0 THEN 0 ELSE n)
        |-> list[k]]

\* C17: get_upcoming_events(from_day, limit) returns exactly the events
\* with day >= from_day, sorted ascending by (day, start time) with
\* insertion order kept among equal keys, and when limit is given the
\* result is the first limit elements of that ordering.
C17_UpcomingSortedLimited ==
    last.op = "get_upcoming_events" =>
        last.list = IF last.flag
                    THEN FirstN(UpcomingInOrder(last.day), last.n)
                    ELSE UpcomingInOrder(last.day)

\* C19: get_conflicting_events(event) returns exactly the events in the
\* bucket of event.day, other than the event object itself, whose time
\* range overlaps event's, each as often as the bucket holds it; events on
\* other days are never returned, and the queried event need not be in
\* the schedule.
C19_ConflictsFromDayBucket ==
    last.op = "get_conflicting_events" =>
        \A e \in EventIds :
            CountIn(last.list, e) =
                IF /\ e # last.event
                   /\ StrictOverlap(time_range[e], time_range[last.event])
                THEN CountIn(BucketOf(events_by_day, day[last.event]), e)
                ELSE 0

\* An event that is not in the schedule was asked for; the bucket of its
\* day holds twice an event with the same day and range, and both entries
\* are returned.
C19_Witness ==
    /\ last.op = "get_conflicting_events"
    /\ ~Contains(events, last.event)
    /\ Len(last.list) = 2
    /\ ThisEvent(last.list[1]) = ThisEvent(last.event)

\* The sum of the counts of a set of (type, count) pairs.
RECURSIVE SumCounts(_)
SumCounts(pairs) ==
    IF pairs = {} THEN 0
    ELSE LET p == CHOOSE x \in pairs : TRUE
         IN  p[2] + SumCounts(pairs \ {p})

\* The places of the list whose event has the status.
PlacesWithStatus(s) == {i \in 1..Len(events) : status[events[i]] = s}

\* The minutes from start to end of the events at the places.
RECURSIVE MinutesOfPlaces(_)
MinutesOfPlaces(places) ==
    IF places = {} THEN 0
    ELSE LET i == CHOOSE x \in places : TRUE
             r == time_range[events[i]]
         IN  MinuteOfDay(r.end_time) - MinuteOfDay(r.start_time)
                 + MinutesOfPlaces(places \ {i})

\* C18: get_statistics never fails: on an empty schedule it reports
\* total_events = 0 without dividing by zero, and on a schedule with events
\* total_events is the number of events, completed_events and
\* cancelled_events are the numbers of events with that status, the
\* per-type counts sum to total_events, total_scheduled_minutes is the sum
\* of the durations of all events, past and upcoming, and
\* average_event_duration is that sum divided by total_events.
C18_StatisticsNeverFail ==
    last.op = "get_statistics" =>
        /\ last.ret = "Dict"
        /\ last.stats.total_events = Len(events)
        /\ (events = <<>> => ~last.stats.detailed)
        /\ (events # <<>> =>
              /\ last.stats.detailed
              /\ last.stats.completed_events
                     = Cardinality(PlacesWithStatus("completed"))
              /\ last.stats.cancelled_events
                     = Cardinality(PlacesWithStatus("cancelled"))
              /\ SumCounts(last.stats.events_by_type) = Len(events)
              /\ last.stats.total_scheduled_minutes
                     = MinutesOfPlaces(1..Len(events))
              /\ last.stats.average_event_duration.dividend
                     = MinutesOfPlaces(1..Len(events))
              /\ last.stats.average_event_duration.divisor = Len(events))

\* The statistics of an emptied schedule were taken.
C18_Witness ==
    /\ last.op = "get_statistics"
    /\ events = <<>>
    /\ DOMAIN events_by_day # {}
    /\ last.ret = "Dict"
    /\ last.stats.total_events = 0

(***************************************************************************)
(* Claims about the adapter's registry.                                    *)
(***************************************************************************)
\* C20: after any sequence of create_schedule, set_active_schedule,
\* delete_schedule and clear_schedule calls the schedule named "default"
\* still exists: delete_schedule("default") is always rejected with the
\* registry and the active selection unchanged, and deleting the active
\* schedule switches the active selection to "default".
C20_DefaultScheduleStays ==
    /\ []("default" \in DOMAIN schedules)
    /\ [][(last'.op = "delete_schedule" /\ last'.name = "default") =>
             /\ last'.ret = ValueError
             /\ schedules' = schedules
             /\ active_schedule_name' = active_schedule_name]_vars
    /\ [][(/\ last'.op = "delete_schedule"
           /\ last'.name = active_schedule_name
           /\ last'.name # "default"
           /\ last'.name \in DOMAIN schedules) =>
             /\ last'.ret = "str"
             /\ last'.name \notin DOMAIN schedules'
             /\ active_schedule_name' = "default"]_vars

\* The active schedule, not the default one, was deleted beside a third
\* schedule; the default schedule, holding an event, is the active one.
C20_Witness ==
    /\ last.op = "delete_schedule"
    /\ last.flag
    /\ last.ret = "str"
    /\ active_schedule_name = "default"
    /\ Cardinality(DOMAIN schedules) = 2
    /\ schedules["default"].events # <<>>

(***************************************************************************)
(* Claims about where the free slots of a day lie.                         *)
(***************************************************************************)
\* A call of get_free_time_slots returned its list.
SlotsReturned == last.op = "get_free_time_slots" /\ last.ret = "List"

\* The events in the bucket of day d.
InBucket(d) ==
    {BucketOf(events_by_day, d)[i] : i \in 1..Len(BucketOf(events_by_day, d))}

\* Event e lies wholly inside an event of the same bucket that starts
\* earlier.
NestedIn(e, f) ==
    /\ e # f
    /\ SecondOfDay(time_range[f].start_time)
           < SecondOfDay(time_range[e].start_time)
    /\ SecondOfDay(time_range[e].end_time)
           < SecondOfDay(time_range[f].end_time)

\* C24: during get_free_time_slots the cursor never moves back: for a day
\* with overlapping or nested events, no returned slot starts before the
\* end of an event of the day that starts earlier than the slot.
C24_CursorNeverRetracts ==
    SlotsReturned =>
        \A i \in 1..Len(last.slots) : \A e \in InBucket(last.day) :
            SecondOfDay(time_range[e].start_time)
                    < SecondOfDay(last.slots[i].start_time)
                => SecondOfDay(time_range[e].end_time)
                       <= SecondOfDay(last.slots[i].start_time)

\* The day holds an event nested in an earlier one, and a slot was returned
\* that starts at the end of the outer event.
C24_Witness ==
    /\ SlotsReturned
    /\ \E e \in InBucket(last.day), f \in InBucket(last.day) :
           /\ NestedIn(e, f)
           /\ \E i \in 1..Len(last.slots) :
                  last.slots[i].start_time = time_range[f].end_time

\* C26: every slot returned by get_free_time_slots starts at or after 09:00
\* and ends at or before 21:00, whatever the events of the day are.
C26_SlotsInsideWindow ==
    SlotsReturned =>
        \A i \in 1..Len(last.slots) :
            /\ SecondOfDay(last.slots[i].start_time)
                   >= SecondOfDay(Time(9, 0, 0))
            /\ SecondOfDay(last.slots[i].end_time)
                   <= SecondOfDay(Time(21, 0, 0))

\* C27: for min_duration >= 1, no slot returned by get_free_time_slots
\* overlaps the time range of an event in the day's bucket.
C27_SlotsAvoidEvents ==
    (SlotsReturned /\ last.n >= 1) =>
        \A i \in 1..Len(last.slots) : \A e \in InBucket(last.day) :
            /\ ~overlaps_with(last.slots[i], time_range[e])
            /\ ~StrictOverlap(last.slots[i], time_range[e])

\* The day holds two events that overlap each other, and slots were
\* returned for a minimum of a minute or more.
C27_Witness ==
    /\ SlotsReturned
    /\ last.n >= 1
    /\ last.slots # <<>>
    /\ \E e \in InBucket(last.day), f \in InBucket(last.day) :
           e # f /\ StrictOverlap(time_range[e], time_range[f])

(***************************************************************************)
(* Claims about the events of a range of days.                             *)
(***************************************************************************)
\* The places of the event list whose event's day is from start_day to
\* end_day, both included.
PlacesInRange(start_day, end_day) ==
    {i \in 1..Len(events) : start_day <= day[events[i]]
                            /\ day[events[i]] <= end_day}

\* The list holds each event as often as the schedule holds it on the days
\* from start_day to end_day, and no other.
ExactlyInRange(list, start_day, end_day) ==
    /\ Len(list) = Cardinality(PlacesInRange(start_day, end_day))
    /\ \A e \in EventIds :
           CountIn(list, e) =
               Cardinality({i \in PlacesInRange(start_day, end_day) :
                               events[i] = e})

\* The list is in the order of day, and of start time within a day.
ByDateAndTime(list) ==
    \A i \in 1..(Len(list) - 1) :
        \/ day[list[i]] < day[list[i + 1]]
        \/ /\ day[list[i]] = day[list[i + 1]]
           /\ SecondOfDay(time_range[list[i]].start_time)
                  <= SecondOfDay(time_range[list[i + 1]].start_time)

\* C23: get_events_in_date_range(start, end) returns exactly the events
\* with start <= day <= end, both bounds included, sorted by date and time.
C23_DateRangeExactSorted ==
    last.op = "get_events_in_date_range" =>
        /\ ExactlyInRange(last.list, last.day, last.n)
        /\ ByDateAndTime(last.list)

(***************************************************************************)
(* Claims about the fields of the next occurrence of a chore.              *)
(***************************************************************************)
\* get_next_occurrence was called on a recurring chore: this step made the
\* new chore last'.n from the chore last'.event.
NextOccurrenceMade == last'.op = "get_next_occurrence" /\ last'.ret = "Chore"

\* The new chore has the fields of the original as they were at the call,
\* but for its day and its status; the tags are equal as lists.
CopiesFieldsButStatus ==
    LET self == chores[last'.event]
        new == chores'[last'.n]
    IN  /\ new.title = self.title
        /\ new.time_range = self.time_range
        /\ new.description = self.description
        /\ new.priority = self.priority
        /\ TagsOfNext(last'.n) = TagsOf(last'.event)
        /\ new.notes = self.notes
        /\ new.category = self.category
        /\ new.is_recurring = self.is_recurring
        /\ new.recurrence_days = self.recurrence_days
        /\ new.estimated_effort = self.estimated_effort

C28_CheckedScheduleIsConflictFree ==
    \A i \in 1..Len(events) : \A j \in 1..Len(events) :
        events[i] # events[j] =>
            /\ ~conflicts_with(ThisEvent(events[i]), ThisEvent(events[j]))
            /\ ~(/\ day[events[i]] = day[events[j]]
                 /\ StrictOverlap(time_range[events[i]],
                                  time_range[events[j]]))

\* The add_event call made last was refused: the schedule holds an event
\* that the new one conflicts with, and does not hold the new one.
C28_Witness ==
    /\ last.op = "add_event"
    /\ last.flag
    /\ last.ret = "False"
    /\ ~Contains(events, last.event)
    /\ \E e \in EventIds :
           /\ Contains(events, e)
           /\ conflicts_with(ThisEvent(last.event), ThisEvent(e))

(***************************************************************************)
(* Claims about the active selection of the registry.                      *)
(***************************************************************************)
\* C29: after any sequence of create_schedule, set_active_schedule and
\* delete_schedule calls, successful or rejected, the active schedule name
\* is a key of the registry, so get_active_schedule never fails;
\* create_schedule with an existing name is rejected and does not replace
\* the existing schedule or change the active selection.
C29_ActiveNameIsRegistryKey ==
    /\ [](active_schedule_name \in DOMAIN schedules)
    /\ [](last.ret # KeyError)
    /\ [][(last'.op = "create_schedule" /\ last'.name \in DOMAIN schedules) =>
             /\ last'.ret = ValueError
             /\ schedules' = schedules
             /\ active_schedule_name' = active_schedule_name]_vars

\* create_schedule was rejected for the name of the active schedule, which
\* is not the default one and still holds its event.
C29_Witness ==
    /\ last.op = "create_schedule"
    /\ last.ret = ValueError
    /\ last.name = active_schedule_name
    /\ last.name # "default"
    /\ last.name \in DOMAIN schedules
    /\ schedules[last.name].events # <<>>

(***************************************************************************)
(* Claims about ranges made of a start and a duration.                     *)
(***************************************************************************)
\* C30: whenever a duration-based construction succeeds for a start time
\* and a non-negative duration d in minutes (TimeRange.from_duration, and
\* the adapter's create_chore, create_gym_session and
\* create_personal_event), the range made starts at the given start time
\* and has duration_minutes equal to d: a duration is never silently
\* shortened or wrapped.
C30_DurationIsKept ==
    (/\ out.op \in {"from_duration", "create_chore"}
     /\ args.delta >= 0
     /\ out.r.exc = "none") =>
        /\ out.r.start_time =
               IF out.op = "from_duration" THEN args.t1
               ELSE Time(args.t1.hour, args.t1.minute, 0)
        /\ out.r.duration_minutes = args.delta

(***************************************************************************)
(* Claims about the tokens of the adapter.                                 *)
(***************************************************************************)
\* C22: the adapter accepts priority and status only as case-sensitive
\* tokens of the closed sets (priority in {LOW, MEDIUM, HIGH, URGENT};
\* status in {scheduled, in_progress, completed, cancelled, rescheduled})
\* and rejects every other token, including one that differs from a valid
\* token only in letter case.
C22_TokensAreCaseSensitive ==
    /\ out.op \in {"get_events_by_status", "update_event_status"} =>
           IF args.token \in StatusValues
           THEN out.s = NameOf(args.token)
           ELSE out.s = KeyError
    /\ out.op \in {"get_events_by_priority", "update_event_priority"} =>
           IF args.token \in PriorityNames
           THEN out.s = NameOf(args.token)
           ELSE out.s = KeyError

(***************************************************************************)
(* Claims about the tools that fail.                                       *)
(***************************************************************************)
TitleTools ==
    {"update_event_status", "update_event_priority", "add_tags_to_event",
     "remove_tags_from_event", "delete_event"}

NameTools == {"set_active_schedule", "delete_schedule"}

\* The active schedule holds no event of that title.
NoSuchTitle(event_title) ==
    \A i \in 1..Len(schedules[active_schedule_name].events) :
        title_of[schedules[active_schedule_name].events[i]] # event_title

\* The step ended in an error the caller sees, and left the registry, the
\* active selection, the lists and indexes of the schedules and the fields
\* of the events as they were.
FailedAndChangedNothing ==
    /\ last'.ret \in {ValueError, KeyError}
    /\ schedules' = schedules
    /\ active_schedule_name' = active_schedule_name
    /\ UNCHANGED <<day, time_range, status, title_of, priority_of, tags_of>>

\* C21: a tool that names an event title or a schedule name that does not
\* exist (update_event_status, update_event_priority, add_tags_to_event,
\* remove_tags_from_event, delete_event, set_active_schedule,
\* delete_schedule) fails with an error the caller sees and leaves the
\* registry, the active selection, every schedule's event list and index
\* and every event's fields unchanged; the same holds when the lookup
\* succeeds but the status or priority token is none of the closed sets.
C21_FailedToolChangesNothing ==
    [][/\ (last'.op \in TitleTools /\ NoSuchTitle(last'.name))
              => FailedAndChangedNothing
       /\ (last'.op \in NameTools /\ last'.name \notin DOMAIN schedules)
              => FailedAndChangedNothing
       /\ (/\ last'.op = "update_event_status"
           /\ ~NoSuchTitle(last'.name)
           /\ last'.token \notin StatusValues)
              => FailedAndChangedNothing
       /\ (/\ last'.op = "update_event_priority"
           /\ ~NoSuchTitle(last'.name)
           /\ last'.token \notin PriorityNames)
              => FailedAndChangedNothing]_vars

====
